---- MODULE Spec2Model ----
(***************************************************************************)
(* Shopping Monitor: URL de-duplication registry, ingestion pass and       *)
(* provider batch analysis, modelled from app/services/*.py.               *)
(*                                                                         *)
(* A URL string is a sequence of tokens: the delimiters of urllib.parse    *)
(* (":", "/", "?", "#", "&", "=") are tokens of their own, every other     *)
(* token is an opaque word ("https", "www.", "example.com", ...).          *)
(***************************************************************************)
EXTENDS Integers, Sequences, FiniteSets, TLC

\* ------------------------------------------------------------------ bounds
MaxWww == 2
MaxParams == 2
NumCallers == 3
MaxCalls == 3
MaxItems == 3
MaxProducts == 2

\* ------------------------------------------------------- string helpers
\* Python None for values that are otherwise tuples
None == <<>>

Lower(tok) ==
    CASE tok = "WWW." -> "www."
      [] tok = "HTTPS" -> "https"
      [] tok = "Product" -> "product"
      [] tok = "Acme" -> "acme"
      [] OTHER -> tok

LowerStr(s) == [i \in DOMAIN s |-> Lower(s[i])]

RECURSIVE LStrip(_, _)
LStrip(s, toks) ==
    IF s # <<>> /\ Head(s) \in toks THEN LStrip(Tail(s), toks) ELSE s

RECURSIVE RStrip(_, _)
RStrip(s, toks) ==
    IF s # <<>> /\ s[Len(s)] \in toks THEN RStrip(SubSeq(s, 1, Len(s) - 1), toks) ELSE s

Strip(s) == RStrip(LStrip(s, {" "}), {" "})

\* str.find over a set of tokens: index of the first token of s in toks, 0 if none
Find(s, toks) ==
    IF \E i \in DOMAIN s : s[i] \in toks
    THEN CHOOSE i \in DOMAIN s : s[i] \in toks /\ \A j \in 1..(i - 1) : s[j] \notin toks
    ELSE 0

From(s, i) == SubSeq(s, i, Len(s))
Upto(s, i) == SubSeq(s, 1, i)

RECURSIVE Split(_, _)
Split(s, sep) ==
    LET i == Find(s, {sep})
    IN  IF i = 0 THEN <<s>> ELSE <<Upto(s, i - 1)>> \o Split(From(s, i + 1), sep)

\* ------------------------------------------------------ urllib.parse
Delims == {":", "/", "?", "#", "&", "=", " "}
SchemeChars == {"http", "https", "www.", "example.com", "other.fr", "product", "123"}
SchemeStart == SchemeChars \ {"123"}
uses_netloc == {<<"http">>, <<"https">>, <<>>}

\* urlsplit, last stage: the query follows the first "?"
SplitQuery(scheme, netloc, rest, fragment) ==
    LET q == Find(rest, {"?"})
    IN  [scheme |-> scheme, netloc |-> netloc,
         path |-> IF q = 0 THEN rest ELSE Upto(rest, q - 1),
         query |-> IF q = 0 THEN <<>> ELSE From(rest, q + 1),
         fragment |-> fragment]

\* urlsplit: the fragment follows the first "#"
SplitFragment(scheme, netloc, rest) ==
    LET h == Find(rest, {"#"})
    IN  SplitQuery(scheme, netloc,
                   IF h = 0 THEN rest ELSE Upto(rest, h - 1),
                   IF h = 0 THEN <<>> ELSE From(rest, h + 1))

\* urlsplit: a netloc only after "//", up to the first of "/", "?", "#"
SplitNetloc(scheme, rest) ==
    LET hasNetloc == Len(rest) >= 2 /\ rest[1] = "/" /\ rest[2] = "/"
        after == From(rest, 3)
        d == Find(after, {"/", "?", "#"})
    IN  IF ~hasNetloc THEN SplitFragment(scheme, <<>>, rest)
        ELSE IF d = 0 THEN SplitFragment(scheme, after, <<>>)
        ELSE SplitFragment(scheme, Upto(after, d - 1), From(after, d))

urlparse(url) ==
    LET c == Find(url, {":"})
        hasScheme == /\ c > 1
                     /\ url[1] \in SchemeStart
                     /\ \A i \in 1..(c - 1) : url[i] \in SchemeChars
    IN  IF hasScheme
        THEN SplitNetloc(LowerStr(Upto(url, c - 1)), From(url, c + 1))
        ELSE SplitNetloc(<<>>, url)

\* parse_qs with keep_blank_values=False: the (name, value) pairs in order of
\* appearance; a field without "=" or with an empty value is dropped
RECURSIVE ParsePairs(_)
ParsePairs(fields) ==
    IF fields = <<>> THEN <<>>
    ELSE LET f == Head(fields)
             e == Find(f, {"="})
             rest == ParsePairs(Tail(fields))
         IN  IF e = 0 \/ From(f, e + 1) = <<>> THEN rest
             ELSE <<[k |-> Upto(f, e - 1), v |-> From(f, e + 1)]>> \o rest

parse_qs(query) == ParsePairs(Split(query, "&"))

\* order of str comparison on the parameter names of the model
Rank(tok) ==
    CASE tok = "color" -> 1
      [] tok = "id" -> 2
      [] tok = "ref" -> 3
      [] tok = "utm_source" -> 4
      [] OTHER -> 5

RECURSIVE StrLess(_, _)
StrLess(a, b) ==
    IF b = <<>> THEN FALSE
    ELSE IF a = <<>> THEN TRUE
    ELSE IF Rank(Head(a)) # Rank(Head(b)) THEN Rank(Head(a)) < Rank(Head(b))
    ELSE StrLess(Tail(a), Tail(b))

\* sorted(cleaned_params.items()): the dict groups the values of a name in
\* order of appearance, the sort orders the names
RECURSIVE InsertByKey(_, _)
InsertByKey(p, sorted) ==
    IF sorted = <<>> THEN <<p>>
    ELSE IF StrLess(p.k, Head(sorted).k) THEN <<p>> \o sorted
    ELSE <<Head(sorted)>> \o InsertByKey(p, Tail(sorted))

RECURSIVE SortedItems(_)
SortedItems(pairs) ==
    IF pairs = <<>> THEN <<>>
    ELSE InsertByKey(pairs[Len(pairs)], SortedItems(Upto(pairs, Len(pairs) - 1)))

quote_plus(tok) ==
    CASE tok = "/" -> "%2F"
      [] tok = ":" -> "%3A"
      [] tok = "?" -> "%3F"
      [] tok = "=" -> "%3D"
      [] tok = " " -> "+"
      [] OTHER -> tok

RECURSIVE urlencode(_)
urlencode(items) ==
    IF items = <<>> THEN <<>>
    ELSE LET p == Head(items)
             one == [i \in DOMAIN p.k |-> quote_plus(p.k[i])] \o <<"=">>
                    \o [i \in DOMAIN p.v |-> quote_plus(p.v[i])]
         IN  IF Tail(items) = <<>> THEN one ELSE one \o <<"&">> \o urlencode(Tail(items))

urlunparse(scheme, netloc, path, query) ==
    LET url1 == IF netloc # <<>> \/ (scheme # <<>> /\ scheme \in uses_netloc
                                     /\ ~(Len(path) >= 2 /\ path[1] = "/" /\ path[2] = "/"))
                THEN <<"/", "/">> \o netloc
                     \o (IF path # <<>> /\ path[1] # "/" THEN <<"/">> \o path ELSE path)
                ELSE path
        url2 == IF scheme # <<>> THEN scheme \o <<":">> \o url1 ELSE url1
    IN  IF query # <<>> THEN url2 \o <<"?">> \o query ELSE url2

\* ---------------------------------------------- URLDeduplicationService
tracking_params ==
    {"utm_source", "utm_medium", "utm_campaign", "utm_term", "utm_content",
     "gclid", "fbclid", "ref", "referrer", "_ga", "mc_eid", "mc_cid",
     "source", "campaign", "medium", "content", "term"}

IsTracking(k) == Len(k) = 1 /\ Lower(k[1]) \in tracking_params

StripWww(domain) ==
    IF domain # <<>> /\ domain[1] = "www." THEN Tail(domain) ELSE domain

CleanPath(path) ==
    LET p == RStrip(path, {"/"})
    IN  IF p = <<>> THEN <<"/">> ELSE p

\* the canonical string of the cleaned parameters, names sorted
QueryString(cleaned_params) ==
    IF cleaned_params # <<>> THEN urlencode(SortedItems(cleaned_params)) ELSE <<>>

\* normalize_url from the parsed URL on
Rebuild(parsed) ==
    urlunparse(IF parsed.scheme # <<>> THEN parsed.scheme ELSE <<"https">>,
               StripWww(parsed.netloc),
               CleanPath(parsed.path),
               QueryString(SelectSeq(parse_qs(parsed.query), LAMBDA p : ~IsTracking(p.k))))

normalize_url(url) ==
    IF url = <<>> THEN <<>> ELSE Rebuild(urlparse(Strip(LowerStr(url))))

extract_domain(url) == StripWww(LowerStr(urlparse(url).netloc))

\* ------------------------------------------------------------ variables
VARIABLES
    raw_url, normalized, renormalized, other_url, other_normalized, npc,
    unique_urls,    \* committed rows of table unique_urls
    tx,             \* tx[s]: the open transaction of session s
    tpc,            \* tpc[t]: where task t is suspended
    cur,            \* cur[t]: arguments of the get_or_create_unique_url call of t
    calls,          \* calls[t]: number of calls t has made
    outcome,        \* outcome[t]: how the last call of t ended
    requested,      \* canonical URLs handed to get_or_create_unique_url so far
    serp_results,   \* committed rows of table serp_results
    url_mappings,   \* committed rows of table serp_url_mappings
    competitors,    \* committed rows of table competitors
    ppc,            \* where scrape_project is
    detect,         \* the detect_competitors argument of the pass
    runs,           \* how often detection and the association backfill ran
    kpc,            \* kpc[k]: where the task of keyword k is suspended
    attempts,       \* attempts[k]: provider calls made for keyword k
    batch,          \* batch[k]: the listings the provider returned for k
    idx,            \* idx[k]: index of the listing deduplicate_serp_results is at
    deduplicated,   \* deduplicated[k]: the annotated listings so far
    results,        \* results[k]: the entry of k in scraping_results
    apc,            \* where analyze_keywords_for_project is
    tasks,          \* combined_results['tasks'] of get_serp_results
    analyzed,       \* the outcome of analyze_keywords_for_project per keyword
    semaphore,      \* the value the Semaphore of the pass was created with
    detection,      \* detection[s]: the detection tail of the pass that runs in session s
    request,        \* the call a service is answering
    response,       \* the answer to that call
    clock,          \* datetime.now() in hours
    cache           \* the Redis client of the cache service and the keys it holds

norm_vars == <<raw_url, normalized, renormalized, other_url, other_normalized, npc>>
db_vars == <<unique_urls, tx>>
call_vars == <<tpc, cur, calls, outcome, requested>>

table_vars == <<serp_results, url_mappings, competitors>>
pass_vars == <<ppc, detect, runs, kpc, attempts, batch, idx, deduplicated, results, semaphore>>
analyze_vars == <<apc, tasks, analyzed>>
service_vars == <<detection, request, response, clock, cache>>
other_vars == <<table_vars, pass_vars, analyze_vars, service_vars>>

vars == <<norm_vars, db_vars, call_vars, table_vars, pass_vars, analyze_vars, service_vars>>

\* ------------------------------------------------ inputs of normalize_url
\* The raw URLs handed to normalize_url, described by their parts.
ParamChoices ==
    {<<"id", "=", "123">>, <<"color", "=", "red">>, <<"utm_source", "=", "google">>,
     <<"ref", "=", "test">>, <<"id", "=">>}

Paths ==
    {<<>>, <<"/">>, <<"/", "product">>, <<"/", "product", "/">>,
     <<"/", "product", "/", "/">>}

SeqsUpTo(S, n) == UNION {[1..m -> S] : m \in 0..n}

UrlParts ==
    [scheme : {"", "//", "http", "https"},
     www : 0..MaxWww,
     host : {"example.com"},
     path : Paths,
     params : SeqsUpTo(ParamChoices, MaxParams),
     style : {"plain", "noisy"}]

RECURSIVE JoinParams(_)
JoinParams(ps) ==
    IF ps = <<>> THEN <<>>
    ELSE IF Tail(ps) = <<>> THEN Head(ps)
    ELSE Head(ps) \o <<"&">> \o JoinParams(Tail(ps))

Upper(tok) ==
    CASE tok = "www." -> "WWW."
      [] tok = "https" -> "HTTPS"
      [] tok = "product" -> "Product"
      [] OTHER -> tok

\* the URL string of the parts; a noisy URL is written in upper case, padded
\* with blanks and carries a fragment
Render(r) ==
    LET s == (CASE r.scheme = "" -> <<>>
                [] r.scheme = "//" -> <<"/", "/">>
                [] OTHER -> <<r.scheme, ":", "/", "/">>)
             \o [i \in 1..r.www |-> "www."] \o <<r.host>> \o r.path
             \o (IF r.params = <<>> THEN <<>> ELSE <<"?">> \o JoinParams(r.params))
    IN  IF r.style = "plain" THEN s
        ELSE <<" ">> \o [i \in DOMAIN s |-> Upper(s[i])] \o <<"#", "frag", " ">>

\* the three URLs of test_url_deduplication
Example1 == [scheme |-> "https", www |-> 1, host |-> "example.com",
             path |-> <<"/", "product">>,
             params |-> <<<<"utm_source", "=", "google">>, <<"id", "=", "123">>>>,
             style |-> "plain"]
Example2 == [scheme |-> "http", www |-> 0, host |-> "example.com",
             path |-> <<"/", "product", "/">>,
             params |-> <<<<"id", "=", "123">>, <<"ref", "=", "test">>>>,
             style |-> "plain"]
Example3 == [scheme |-> "https", www |-> 0, host |-> "example.com",
             path |-> <<"/", "product">>,
             params |-> <<<<"id", "=", "123">>>>,
             style |-> "plain"]

Unset == <<"unset">>

NoParts == [scheme |-> "", www |-> 0, host |-> "", path |-> <<>>, params |-> <<>>,
            style |-> "plain"]

\* ------------------------------------------------ sessions and tables
\* A session reads the committed rows overlaid with the changes of its own
\* open transaction.  A flush that fails rolls the transaction back and
\* leaves the session inactive: every later execute, flush or commit of
\* that session raises until rollback() is called.
Sessions == {1, 2}
Callers == 1..NumCallers
SessionOf(t) == IF t = NumCallers THEN 2 ELSE 1

EmptyDict == <<"{}">>
Truthy(v) == v \notin {None, EmptyDict}

EmptyTx ==
    [state |-> "active", urls |-> {}, upd |-> {}, facts |-> {}, maps |-> {}, comps |-> {}]

NoCall == [url |-> <<>>, product_data |-> None]

RegistryIdle ==
    /\ unique_urls = {}
    /\ tx = [s \in Sessions |-> EmptyTx]
    /\ tpc = [t \in Callers |-> "idle"]
    /\ cur = [t \in Callers |-> NoCall]
    /\ calls = [t \in Callers |-> 0]
    /\ outcome = [t \in Callers |-> "none"]
    /\ requested = {}

\* ------------------------------------------------------ a project pass
\* the active keywords of the project and the session of the pass
Keywords == {1, 2}
PassSession == 1

OtherUrl == <<"https", ":", "/", "/", "other.fr", "/", "product">>

\* listings of the provider: a raw URL (empty if the listing carries none)
\* and the kind of its "merchant" value
ItemA == [url |-> Render(Example1), merchant |-> "dict"]
ItemB == [url |-> Render(Example3), merchant |-> "dict"]
ItemC == [url |-> OtherUrl, merchant |-> "dict"]
ItemN == [url |-> <<>>, merchant |-> "dict"]
ItemM == [url |-> Render(Example1), merchant |-> "null"]

\* serp_data["items"] as the provider may return it for keyword k
Batches(k) ==
    IF k = 1 THEN SeqsUpTo({ItemA, ItemB, ItemC, ItemN}, MaxItems)
    ELSE {<<>>, <<ItemA>>, <<ItemB>>, <<ItemM>>, <<ItemC, ItemM>>}

NoResult == [done |-> FALSE, success |-> FALSE, results_count |-> 0, error |-> "none"]

TablesEmpty ==
    /\ serp_results = {}
    /\ url_mappings = {}
    /\ competitors = {}

PassIdle ==
    /\ TablesEmpty
    /\ ppc = "idle"
    /\ detect = TRUE
    /\ runs = [detection |-> 0, backfill |-> 0]
    /\ kpc = [k \in Keywords |-> "idle"]
    /\ attempts = [k \in Keywords |-> 0]
    /\ batch = [k \in Keywords |-> <<>>]
    /\ idx = [k \in Keywords |-> 0]
    /\ deduplicated = [k \in Keywords |-> <<>>]
    /\ results = [k \in Keywords |-> NoResult]
    /\ semaphore = 0

AnalyzeIdle ==
    /\ apc = "idle"
    /\ tasks = <<>>
    /\ analyzed = [k \in Keywords |-> "none"]

\* the projects of the database; a pass, an analysis or a request is for one
\* of them
Projects == {1, 2}
PassProject == 1

\* no detection tail is running in the session
NoDetection ==
    [pc |-> "idle", project_id |-> PassProject, candidates |-> {}, new_competitors |-> {},
     created |-> FALSE]

ServicesIdle ==
    /\ detection = [s \in Sessions |-> NoDetection]
    /\ request = None
    /\ response = None
    /\ clock = 0
    /\ cache = [redis_client |-> FALSE, keys |-> {}]

Visible(s) ==
    {r \in unique_urls : \A m \in tx[s].upd : m.id # r.id} \cup tx[s].upd \cup tx[s].urls

\* select(UniqueUrl).where(UniqueUrl.url == normalized_url), scalar_one_or_none
SelectByUrl(s, u) == {r \in Visible(s) : r.url = u}
One(rows) == CHOOSE r \in rows : TRUE

\* an attribute change of a loaded row, kept by the session until commit
Modify(t, row) ==
    IF \E r \in t.urls : r.id = row.id
    THEN [t EXCEPT !.urls = {r \in t.urls : r.id # row.id} \cup {row}]
    ELSE [t EXCEPT !.upd = {r \in t.upd : r.id # row.id} \cup {row}]

\* the INSERT hits the unique index on unique_urls.url
Conflict(s, u) == \E r \in Visible(s) : r.url = u
\* the INSERT waits for the transaction that holds an uncommitted row with that url
Blocked(s, u) == \E s2 \in Sessions \ {s} : \E r \in tx[s2].urls : r.url = u

FailedFlush ==
    [state |-> "inactive", urls |-> {}, upd |-> {}, facts |-> {}, maps |-> {}, comps |-> {}]

\* ------------------------------------------- get_or_create_unique_url
\* mutant: the data of a row is replaced whenever data is supplied
MergeExisting_Overwrite(row, product_data, now) ==
    IF Truthy(product_data)
    THEN [row EXCEPT !.product_data = product_data,
                     !.scraping_status = "completed",
                     !.last_scraped = now]
    ELSE row

MergeExisting(row, product_data, now) ==
    IF Truthy(product_data) /\ ~Truthy(row.product_data)
    THEN [row EXCEPT !.product_data = product_data,
                     !.scraping_status = "completed",
                     !.last_scraped = now]
    ELSE row

\* the raw URLs the callers and the provider give
RawUrls == {Render(Example1), Render(Example2), Render(Example3)}

\* normalized_url = self.normalize_url(url), tabulated over the raw URLs
KnownUrls == RawUrls \cup {OtherUrl}
Canonical == [u \in KnownUrls |-> normalize_url(u)]
\* extract_domain_from_url(url), tabulated over the raw URLs
DomainOf == [u \in KnownUrls |-> extract_domain(u)]

\* mutant: a new row is always pending
NewUniqueUrl_Pending(id, raw, product_data, now) ==
    [id |-> id,
     url |-> Canonical[raw],
     domain |-> DomainOf[raw],
     product_data |-> product_data,
     scraping_status |-> "pending",
     last_scraped |-> IF Truthy(product_data) THEN now ELSE None]

NewUniqueUrl(id, raw, product_data, now) ==
    [id |-> id,
     url |-> Canonical[raw],
     domain |-> DomainOf[raw],
     product_data |-> product_data,
     scraping_status |-> IF Truthy(product_data) THEN "completed" ELSE "pending",
     last_scraped |-> IF Truthy(product_data) THEN now ELSE None]

\* --------------------------------------------- normalize_url driver
InitNorm ==
    /\ raw_url \in UrlParts
    /\ normalized = Unset
    /\ renormalized = Unset
    /\ other_url = NoParts
    /\ other_normalized = Unset
    /\ npc = "start"
    /\ RegistryIdle
    /\ PassIdle
    /\ AnalyzeIdle
    /\ ServicesIdle

\* normalize_url(raw_url)
NormalizeUrl ==
    /\ npc = "start"
    /\ normalized' = normalize_url(Render(raw_url))
    /\ npc' = "normalized"
    /\ UNCHANGED <<raw_url, renormalized, other_url, other_normalized, db_vars, call_vars, other_vars>>

\* normalize_url applied to its own result
NormalizeAgain ==
    /\ npc = "normalized"
    /\ renormalized' = normalize_url(normalized)
    /\ npc' = "again"
    /\ UNCHANGED <<raw_url, normalized, other_url, other_normalized, db_vars, call_vars, other_vars>>

\* r1 and r2 have the same host up to one leading www., the same path up to
\* trailing slashes, the same non-tracking parameters, and an http or https
\* scheme each
NonTracking(ps) == SelectSeq(ps, LAMBDA p : p[1] \notin tracking_params)

SameUpToTracking(r1, r2) ==
    /\ r1.scheme \in {"http", "https"} /\ r2.scheme \in {"http", "https"}
    /\ r1.host = r2.host
    /\ (r1.www = r2.www \/ {r1.www, r2.www} = {0, 1})
    /\ RStrip(r1.path, {"/"}) = RStrip(r2.path, {"/"})
    /\ NonTracking(r1.params) = NonTracking(r2.params)
    /\ r1.style = r2.style

\* normalize_url of a second URL that is equivalent to the first
NormalizeVariant ==
    /\ npc = "again"
    /\ \E r2 \in UrlParts :
        /\ SameUpToTracking(raw_url, r2)
        /\ other_url' = r2
        /\ other_normalized' = normalize_url(Render(r2))
    /\ npc' = "done"
    /\ UNCHANGED <<raw_url, normalized, renormalized, db_vars, call_vars, other_vars>>

NextNorm == NormalizeUrl \/ NormalizeAgain \/ NormalizeVariant

SpecNorm == InitNorm /\ [][NextNorm]_vars

\* ---------------------------------------------------- registry callers
\* Callers of get_or_create_unique_url; the last caller has a session of its
\* own, the others share one session as the keyword tasks of a pass do.
Stamp(t) == <<t, calls[t]>>

RECURSIVE SumUpTo(_, _)
SumUpTo(f, n) == IF n = 0 THEN 0 ELSE f[n] + SumUpTo(f, n - 1)
\* the calls made so far by all callers
CallsMade == SumUpTo(calls, NumCallers)
Payload(t, kind) == IF kind = <<"data">> THEN <<"data", ToString(t)>> ELSE kind

InitRegistry ==
    /\ raw_url = NoParts
    /\ normalized = Unset
    /\ renormalized = Unset
    /\ other_url = NoParts
    /\ other_normalized = Unset
    /\ npc = "off"
    /\ RegistryIdle
    /\ PassIdle
    /\ AnalyzeIdle
    /\ ServicesIdle

\* entry of get_or_create_unique_url up to the result of the SELECT
GetOrCreateLookup(t, raw, kind) ==
    LET s == SessionOf(t)
        pd == Payload(t, kind)
        row == SelectByUrl(s, Canonical[raw])
    IN  /\ tpc[t] = "idle"
        /\ CallsMade < MaxCalls
        /\ calls' = [calls EXCEPT ![t] = @ + 1]
        /\ cur' = [cur EXCEPT ![t] = [url |-> raw, product_data |-> pd]]
        /\ requested' = requested \cup {Canonical[raw]}
        /\ IF tx[s].state = "inactive"
           THEN /\ outcome' = [outcome EXCEPT ![t] = "PendingRollbackError"]
                /\ UNCHANGED <<tpc, tx>>
           ELSE IF row # {}
           THEN /\ tx' = [tx EXCEPT ![s] = Modify(@, MergeExisting(One(row), pd, <<t, calls[t] + 1>>))]
                /\ outcome' = [outcome EXCEPT ![t] = "returned"]
                /\ UNCHANGED tpc
           ELSE /\ tpc' = [tpc EXCEPT ![t] = "insert"]
                /\ outcome' = [outcome EXCEPT ![t] = "pending"]
                /\ UNCHANGED tx
        /\ UNCHANGED <<unique_urls, norm_vars, other_vars>>

\* session.add(unique_url); await session.flush()
GetOrCreateInsert(t) ==
    LET s == SessionOf(t)
        u == Canonical[cur[t].url]
    IN  /\ tpc[t] = "insert"
        /\ IF tx[s].state = "inactive"
           THEN /\ outcome' = [outcome EXCEPT ![t] = "PendingRollbackError"]
                /\ UNCHANGED tx
           ELSE IF Conflict(s, u)
           THEN /\ tx' = [tx EXCEPT ![s] = FailedFlush]
                /\ outcome' = [outcome EXCEPT ![t] = "IntegrityError"]
           ELSE /\ ~Blocked(s, u)
                /\ tx' = [tx EXCEPT ![s].urls = @ \cup
                            {NewUniqueUrl(Stamp(t), cur[t].url, cur[t].product_data, Stamp(t))}]
                /\ outcome' = [outcome EXCEPT ![t] = "returned"]
        /\ tpc' = [tpc EXCEPT ![t] = "idle"]
        /\ UNCHANGED <<unique_urls, cur, calls, requested, norm_vars, other_vars>>

\* await session.commit() once the tasks of the session are done; on an
\* inactive session commit raises and the caller rolls back
SessionCommit(s) ==
    /\ \A t \in Callers : SessionOf(t) = s => tpc[t] = "idle"
    /\ tx[s] # EmptyTx
    /\ unique_urls' = IF tx[s].state = "active" THEN Visible(s) ELSE unique_urls
    /\ tx' = [tx EXCEPT ![s] = EmptyTx]
    /\ UNCHANGED <<call_vars, norm_vars, other_vars>>

NextRegistry ==
    \/ \E t \in Callers, raw \in RawUrls, kind \in {None, <<"data">>} :
            GetOrCreateLookup(t, raw, kind)
    \/ \E t \in Callers : GetOrCreateInsert(t)
    \/ \E s \in Sessions : SessionCommit(s)

SpecRegistry == InitRegistry /\ [][NextRegistry]_vars

\* ---------------------------------------------- update_scraping_status
Statuses == {"pending", "completed", "failed"}

\* UniqueUrl.is_scraped
is_scraped(row) == row.scraping_status = "completed" /\ row.product_data # None

\* product data without its "error" key
WithoutError(product_data) ==
    SelectSeq(product_data, LAMBDA x : x # "error")

\* the row after update_scraping_status(row.id, status, product_data,
\* error_message); product_data["error"] = error_message is written as a
\* last element "error", replacing an "error" key the dict holds already
Updated(row, status, product_data, error_message, now) ==
    LET pd == IF Truthy(product_data) THEN product_data ELSE row.product_data
    IN  [row EXCEPT !.scraping_status = status,
                    !.last_scraped = now,
                    !.product_data =
                        IF error_message /\ status = "failed"
                        THEN (IF Truthy(pd) THEN WithoutError(pd) ELSE <<>>) \o <<"error">>
                        ELSE pd]

\* a call of update_scraping_status by task t; an id without a row is
\* logged and the call returns
UpdateScrapingStatus(t, unique_url_id, status, kind, error_message) ==
    LET s == SessionOf(t)
        row == {r \in Visible(s) : r.id = unique_url_id}
    IN  /\ tpc[t] = "idle"
        /\ CallsMade < MaxCalls
        /\ calls' = [calls EXCEPT ![t] = @ + 1]
        /\ IF tx[s].state = "inactive"
           THEN /\ outcome' = [outcome EXCEPT ![t] = "PendingRollbackError"]
                /\ UNCHANGED tx
           ELSE /\ outcome' = [outcome EXCEPT ![t] = "updated"]
                /\ IF row = {} THEN UNCHANGED tx
                   ELSE tx' = [tx EXCEPT ![s] =
                            Modify(@, Updated(One(row), status, Payload(t, kind),
                                              error_message, <<t, calls[t] + 1>>))]
        /\ UNCHANGED <<unique_urls, tpc, cur, requested, norm_vars, other_vars>>

NextStatus ==
    \/ NextRegistry
    \/ \E t \in Callers, id \in {<<t2, n>> : t2 \in Callers, n \in 1..MaxCalls},
          status \in Statuses, kind \in {None, <<"data">>}, error_message \in BOOLEAN :
            UpdateScrapingStatus(t, id, status, kind, error_message)

SpecStatus == InitRegistry /\ [][NextStatus]_vars

\* ------------------------------------------------------ scrape_project
\* default ceiling of the semaphore of scrape_project
DefaultMaxConcurrent == 5
\* stop_after_attempt of get_shopping_serp
MaxAttempts == 3

Min(a, b) == IF a < b THEN a ELSE b
Max(a, b) == IF a > b THEN a ELSE b
Range(f) == {f[i] : i \in DOMAIN f}

\* the max_concurrent argument (an Optional[int]: None or <<n>>) after the
\* default has been applied
max_concurrent(arg) ==
    IF arg = None THEN Min(Cardinality(Keywords), DefaultMaxConcurrent) ELSE arg[1]
Running_AfterFetch == {k \in Keywords : kpc[k] \notin {"idle", "waiting", "fetch", "done"}}

\* the keyword tasks inside "async with semaphore"
Running == {k \in Keywords : kpc[k] \notin {"idle", "waiting", "done"}}

\* await asyncio.gather(*tasks) has returned
AllTasksDone_Any == \E k \in Keywords : kpc[k] = "done"

AllTasksDone == \A k \in Keywords : kpc[k] = "done"

\* what a keyword task leaves alone
KeywordFrame ==
    UNCHANGED <<ppc, detect, runs, semaphore, unique_urls, table_vars, norm_vars,
                call_vars, analyze_vars, service_vars>>

\* the task of k ends with an exception: its entry has success False
Fail(k, err) ==
    /\ kpc' = [kpc EXCEPT ![k] = "done"]
    /\ results' = [results EXCEPT ![k] =
            [done |-> TRUE, success |-> FALSE, results_count |-> 0, error |-> err]]

Succeed_AsFailure(k, n) ==
    /\ kpc' = [kpc EXCEPT ![k] = "done"]
    /\ results' = [results EXCEPT ![k] =
            [done |-> TRUE, success |-> FALSE, results_count |-> n, error |-> "none"]]

\* the task of k returns the result of scrape_single_keyword
Succeed(k, n) ==
    /\ kpc' = [kpc EXCEPT ![k] = "done"]
    /\ results' = [results EXCEPT ![k] =
            [done |-> TRUE, success |-> TRUE, results_count |-> n, error |-> "none"]]

\* entry of scrape_project up to asyncio.gather
ScrapeProject(detect_competitors, max_concurrent_arg) ==
    /\ ppc = "idle"
    /\ ppc' = "gather"
    /\ detect' = detect_competitors
    /\ semaphore' = max_concurrent(max_concurrent_arg)
    /\ kpc' = [k \in Keywords |-> "waiting"]
    /\ UNCHANGED <<runs, attempts, batch, idx, deduplicated, results, db_vars,
                   table_vars, norm_vars, call_vars, analyze_vars, service_vars>>

\* async with semaphore; the first call of get_shopping_serp is sent
StartKeyword(k) ==
    /\ ppc = "gather"
    /\ kpc[k] = "waiting"
    /\ Cardinality(Running) < semaphore
    /\ kpc' = [kpc EXCEPT ![k] = "fetch"]
    /\ attempts' = [attempts EXCEPT ![k] = 1]
    /\ UNCHANGED <<batch, idx, deduplicated, results, tx>>
    /\ KeywordFrame

\* get_shopping_serp returns serp_data
ProviderReturns(k, items) ==
    /\ ppc = "gather"
    /\ kpc[k] = "fetch"
    /\ attempts' = [attempts EXCEPT ![k] = 0]
    /\ IF items = <<>>
       THEN /\ Succeed(k, 0)
            /\ UNCHANGED <<batch, idx>>
       ELSE /\ batch' = [batch EXCEPT ![k] = items]
            /\ idx' = [idx EXCEPT ![k] = 1]
            /\ kpc' = [kpc EXCEPT ![k] = "dedupe"]
            /\ UNCHANGED results
    /\ UNCHANGED <<deduplicated, tx>>
    /\ KeywordFrame

\* get_shopping_serp raises: retried until the third attempt has failed
ProviderFails(k) ==
    /\ ppc = "gather"
    /\ kpc[k] = "fetch"
    /\ IF attempts[k] < MaxAttempts
       THEN /\ attempts' = [attempts EXCEPT ![k] = @ + 1]
            /\ UNCHANGED <<kpc, results>>
       ELSE /\ attempts' = [attempts EXCEPT ![k] = 0]
            /\ Fail(k, "ExternalAPIError")
    /\ UNCHANGED <<batch, idx, deduplicated, tx>>
    /\ KeywordFrame

\* ----------------------------------------- deduplicate_serp_results
\* the listing with the keys deduplicate_serp_results adds to it; a listing
\* whose canonical URL was met before in the batch gets no normalized_url
Annotate(item, unique_url_id, normalized_url) ==
    [url |-> item.url, merchant |-> item.merchant,
     unique_url_id |-> unique_url_id, normalized_url |-> normalized_url]

Seen_Nothing(k) == {}

\* seen_urls and url_to_unique_id
Seen(k) == {it.normalized_url : it \in Range(deduplicated[k])} \ {None}
IdOfSeen(k, u) ==
    (CHOOSE it \in Range(deduplicated[k]) : it.normalized_url = u).unique_url_id

\* product_data of a listing, with its scraped_at
ProductData(k) == <<"data", k>>

\* deduplicated.append(result) and the next turn of the loop
Advance(k, items) ==
    /\ deduplicated' = [deduplicated EXCEPT ![k] = items]
    /\ idx' = [idx EXCEPT ![k] = @ + 1]
    /\ kpc' = [kpc EXCEPT ![k] = IF idx[k] = Len(batch[k]) THEN "save" ELSE "dedupe"]

\* one turn of the loop up to the result of the SELECT of
\* get_or_create_unique_url; calls[k] counts the calls of get_or_create_unique_url
DedupeItem(k) ==
    LET item == batch[k][idx[k]]
        u == Canonical[item.url]
        row == SelectByUrl(PassSession, u)
    IN  /\ ppc = "gather"
        /\ kpc[k] = "dedupe"
        /\ IF item.url = <<>>
           THEN /\ Advance(k, deduplicated[k])
                /\ UNCHANGED <<tx, results>>
           ELSE IF u \in Seen(k)
           THEN /\ Advance(k, Append(deduplicated[k], Annotate(item, IdOfSeen(k, u), None)))
                /\ UNCHANGED <<tx, results>>
           ELSE IF item.merchant = "null"
           THEN /\ Fail(k, "AttributeError")
                /\ UNCHANGED <<tx, idx, deduplicated>>
           ELSE IF tx[PassSession].state = "inactive"
           THEN /\ Fail(k, "PendingRollbackError")
                /\ UNCHANGED <<tx, idx, deduplicated>>
           ELSE IF row # {}
           THEN /\ tx' = [tx EXCEPT ![PassSession] =
                            Modify(@, MergeExisting(One(row), ProductData(k), <<k, idx[k]>>))]
                /\ Advance(k, Append(deduplicated[k], Annotate(item, One(row).id, u)))
                /\ UNCHANGED results
           ELSE /\ kpc' = [kpc EXCEPT ![k] = "insert"]
                /\ UNCHANGED <<tx, idx, deduplicated, results>>
        /\ UNCHANGED <<attempts, batch>>
        /\ calls' = [calls EXCEPT ![k] =
                IF item.url # <<>> /\ u \notin Seen(k) /\ item.merchant # "null"
                THEN @ + 1 ELSE @]
        /\ UNCHANGED <<ppc, detect, runs, semaphore, unique_urls, table_vars, norm_vars,
                       tpc, cur, outcome, requested, analyze_vars, service_vars>>

\* session.add(unique_url); await session.flush() of get_or_create_unique_url
InsertRow(k) ==
    LET item == batch[k][idx[k]]
        u == Canonical[item.url]
        id == <<k, idx[k]>>
    IN  /\ ppc = "gather"
        /\ kpc[k] = "insert"
        /\ IF tx[PassSession].state = "inactive"
           THEN /\ Fail(k, "PendingRollbackError")
                /\ UNCHANGED <<tx, idx, deduplicated>>
           ELSE IF Conflict(PassSession, u)
           THEN /\ tx' = [tx EXCEPT ![PassSession] = FailedFlush]
                /\ Fail(k, "IntegrityError")
                /\ UNCHANGED <<idx, deduplicated>>
           ELSE /\ tx' = [tx EXCEPT ![PassSession].urls =
                            @ \cup {NewUniqueUrl(id, item.url, ProductData(k), id)}]
                /\ Advance(k, Append(deduplicated[k], Annotate(item, id, u)))
                /\ UNCHANGED results
        /\ UNCHANGED <<attempts, batch>>
        /\ KeywordFrame

\* ------------------------------------ process_and_save_serp_results
\* mutant: positions counted from 0
NewFacts_FromZero(k, items) ==
    {[id |-> <<k, p>>, project_id |-> PassProject, keyword_id |-> k, position |-> p - 1,
      url |-> items[p].url, domain |-> DomainOf[items[p].url],
      competitor_id |-> None] : p \in DOMAIN items}

\* the SerpResult rows of the listings, enumerate(serp_items, 1)
NewFacts(k, items) ==
    {[id |-> <<k, p>>, project_id |-> PassProject, keyword_id |-> k, position |-> p,
      url |-> items[p].url, domain |-> DomainOf[items[p].url],
      competitor_id |-> None] : p \in DOMAIN items}

\* the loop over the listings and the flush that follows it
SaveFacts(k) ==
    /\ ppc = "gather"
    /\ kpc[k] = "save"
    /\ IF deduplicated[k] = <<>>
       THEN /\ Succeed(k, 0)
            /\ UNCHANGED tx
       ELSE IF tx[PassSession].state = "inactive"
       THEN /\ Fail(k, "PendingRollbackError")
            /\ UNCHANGED tx
       ELSE /\ tx' = [tx EXCEPT ![PassSession].facts = @ \cup NewFacts(k, deduplicated[k])]
            /\ kpc' = [kpc EXCEPT ![k] = "map"]
            /\ UNCHANGED results
    /\ UNCHANGED <<attempts, batch, idx, deduplicated>>
    /\ KeywordFrame

\* create_serp_url_mappings: one mapping per fact and its flush
NewMappings(k, items) ==
    {[serp_result_id |-> <<k, p>>, unique_url_id |-> items[p].unique_url_id] :
        p \in DOMAIN items}

SaveMappings(k) ==
    /\ ppc = "gather"
    /\ kpc[k] = "map"
    /\ IF tx[PassSession].state = "inactive"
       THEN /\ Fail(k, "PendingRollbackError")
            /\ UNCHANGED tx
       ELSE /\ tx' = [tx EXCEPT ![PassSession].maps = @ \cup NewMappings(k, deduplicated[k])]
            /\ Succeed(k, Len(deduplicated[k]))
    /\ UNCHANGED <<attempts, batch, idx, deduplicated>>
    /\ KeywordFrame

\* ------------------------------------------------ competitor detection
\* the arguments scrape_project gives detect_new_competitors
min_appearances == 2
min_authority_score == 20

DomainPrefixes == {"www.", "shop.", "store.", "m.", "mobile."}

\* at most one of the prefixes is removed
StripPrefix(domain) ==
    IF domain # <<>> /\ domain[1] \in DomainPrefixes THEN Tail(domain) ELSE domain

normalize_domain(domain) == StripPrefix(Strip(LowerStr(domain)))

marketplaces == {<<"amazon.fr">>, <<"cdiscount.com">>, <<"fnac.com">>}
is_marketplace_domain(domain) == normalize_domain(domain) \in marketplaces

RECURSIVE SumPositions(_)
SumPositions(facts) ==
    IF facts = {} THEN 0
    ELSE LET f == CHOOSE x \in facts : TRUE
         IN  f.position + SumPositions(facts \ {f})

\* calculate_domain_authority_score times the number n of positions, for a
\* domain without prices (price_competitiveness 0.5): the average position
\* is total / n
AuthorityTimes(n, domain, appearances, total) ==
    Min(n * (Min(appearances * 2, 50) + 10
             + (IF is_marketplace_domain(domain) THEN 10 ELSE 0))
        + Max(0, 30 * n - total),
        100 * n)

\* the rows a session reads from serp_results and competitors: the committed
\* rows with the session's own pending changes over them
VisibleFacts(s) ==
    {f \in serp_results : \A g \in tx[s].facts : g.id # f.id} \cup tx[s].facts
VisibleCompetitors(s) == competitors \cup tx[s].comps

\* where(SerpResult.project_id == project_id), where(Competitor.project_id == project_id)
ProjectFacts(s, p) == {f \in VisibleFacts(s) : f.project_id = p}
ProjectCompetitors(s, p) == {c \in VisibleCompetitors(s) : c.project_id = p}

\* domain_stats of analyze_serp_domains: the facts of a normalized domain
FactsOfDomain(s, p, d) ==
    {f \in ProjectFacts(s, p) : f.domain # <<>> /\ normalize_domain(f.domain) = d}
StatDomains(s, p) ==
    {normalize_domain(f.domain) : f \in {x \in ProjectFacts(s, p) : x.domain # <<>>}} \ {<<>>}

\* the candidates analyze_serp_domains returns
Candidates(s, p) ==
    {d \in StatDomains(s, p) :
        LET fs == FactsOfDomain(s, p, d)
            n == Cardinality(fs)
        IN  /\ n >= min_appearances
            /\ AuthorityTimes(n, d, n, SumPositions(fs)) >= min_authority_score * n}

\* get_existing_competitors
ExistingDomains(s, p) == {normalize_domain(c.domain) : c \in ProjectCompetitors(s, p)}

NewCandidates_StoredDomain(s, p) ==
    {c \in Candidates(s, p) : c \notin {x.domain : x \in ProjectCompetitors(s, p)}}

\* new_competitors of detect_new_competitors
NewCandidates(s, p) ==
    {c \in Candidates(s, p) : normalize_domain(c) \notin ExistingDomains(s, p)}

\* create_competitor_from_candidate
NewCompetitor(p, d) ==
    [id |-> <<p, d>>, project_id |-> p, domain |-> d, is_main_brand |-> FALSE]

\* ------------------------------------------ scrape_project, after gather
successful_scrapes == Cardinality({k \in Keywords : results[k].success})

PassFrame ==
    UNCHANGED <<detect, kpc, attempts, batch, idx, deduplicated, results, semaphore,
                norm_vars, call_vars, analyze_vars, service_vars>>

\* the count of the results and await self.session.commit(); a commit that
\* raises is followed by the rollback of the handler and a ScrapingError
CommitPass ==
    /\ ppc = "gather"
    /\ AllTasksDone
    /\ IF tx[PassSession].state = "inactive"
       THEN /\ ppc' = "raised"
            /\ UNCHANGED <<unique_urls, table_vars>>
       ELSE /\ unique_urls' = Visible(PassSession)
            /\ serp_results' = VisibleFacts(PassSession)
            /\ url_mappings' = url_mappings \cup tx[PassSession].maps
            /\ competitors' = VisibleCompetitors(PassSession)
            /\ ppc' = IF detect /\ successful_scrapes > 0 THEN "detect" ELSE "returned"
    /\ tx' = [tx EXCEPT ![PassSession] = EmptyTx]
    /\ UNCHANGED runs
    /\ PassFrame

\* detect_new_competitors with auto_create
DetectNewCompetitors ==
    /\ ppc = "detect"
    /\ tx' = [tx EXCEPT ![PassSession].comps =
                @ \cup {NewCompetitor(PassProject, d) :
                            d \in NewCandidates(PassSession, PassProject)}]
    /\ runs' = [runs EXCEPT !.detection = @ + 1]
    /\ ppc' = "associate"
    /\ UNCHANGED <<unique_urls, table_vars>>
    /\ PassFrame

\* domain_to_competitor[normalized_domain]
\* mutant: the competitors of all projects are looked up
CompetitorOf_AnyProject(s, p, d) ==
    CHOOSE c \in VisibleCompetitors(s) : normalize_domain(c.domain) = d

CompetitorOf(s, p, d) ==
    CHOOSE c \in ProjectCompetitors(s, p) : normalize_domain(c.domain) = d

\* mutant: a fact is matched on its domain as stored
Associated_RawDomain(s, p) ==
    {[f EXCEPT !.competitor_id =
            (CHOOSE c \in ProjectCompetitors(s, p) : c.domain = f.domain).id] :
        f \in {x \in ProjectFacts(s, p) :
                    /\ x.competitor_id = None
                    /\ x.domain # None
                    /\ \E c \in ProjectCompetitors(s, p) : c.domain = x.domain}}

\* the facts the loop of update_competitor_associations changes, as changed
Associated(s, p) ==
    {[f EXCEPT !.competitor_id = CompetitorOf(s, p, normalize_domain(f.domain)).id] :
        f \in {x \in ProjectFacts(s, p) :
                    /\ x.competitor_id = None
                    /\ x.domain # None
                    /\ normalize_domain(x.domain) \in ExistingDomains(s, p)}}

\* update_competitor_associations and the commit that follows it
UpdateAssociations ==
    /\ ppc = "associate"
    /\ serp_results' = {f \in VisibleFacts(PassSession) :
                            \A g \in Associated(PassSession, PassProject) : g.id # f.id}
                        \cup Associated(PassSession, PassProject)
    /\ competitors' = VisibleCompetitors(PassSession)
    /\ tx' = [tx EXCEPT ![PassSession] = EmptyTx]
    /\ runs' = [runs EXCEPT !.backfill = @ + 1]
    /\ ppc' = "returned"
    /\ UNCHANGED <<unique_urls, url_mappings>>
    /\ PassFrame

Init ==
    /\ raw_url = NoParts
    /\ normalized = Unset
    /\ renormalized = Unset
    /\ other_url = NoParts
    /\ other_normalized = Unset
    /\ npc = "off"
    /\ RegistryIdle
    /\ PassIdle
    /\ AnalyzeIdle
    /\ ServicesIdle

Next ==
    \/ \E d \in BOOLEAN, mc \in {None, <<1>>} : ScrapeProject(d, mc)
    \/ \E k \in Keywords : StartKeyword(k)
    \/ \E k \in Keywords : \E items \in Batches(k) : ProviderReturns(k, items)
    \/ \E k \in Keywords : ProviderFails(k)
    \/ \E k \in Keywords : DedupeItem(k)
    \/ \E k \in Keywords : InsertRow(k)
    \/ \E k \in Keywords : SaveFacts(k)
    \/ \E k \in Keywords : SaveMappings(k)
    \/ CommitPass
    \/ DetectNewCompetitors
    \/ UpdateAssociations

Spec == Init /\ [][Next]_vars

\* the steps of the task of keyword k; the provider call of the task
\* returns or raises
KeywordStep(k) ==
    \/ StartKeyword(k)
    \/ \E items \in Batches(k) : ProviderReturns(k, items)
    \/ ProviderFails(k)
    \/ DedupeItem(k)
    \/ InsertRow(k)
    \/ SaveFacts(k)
    \/ SaveMappings(k)

\* the steps of scrape_project after gather
PassStep == CommitPass \/ DetectNewCompetitors \/ UpdateAssociations

\* the event loop resumes every coroutine that can run, and every provider
\* call ends
FairSpec ==
    /\ Spec
    /\ \A k \in Keywords : WF_vars(KeywordStep(k))
    /\ WF_vars(PassStep)

\* ----------------------------------- analyze_keywords_for_project
AnalyzeSession == 1
Sellers == {"Leroy Merlin", "Acme"}

\* the domain process_and_save_serp_results derives from the seller
SellerDomain(seller) ==
    CASE seller = "Leroy Merlin" -> <<"leroymerlin.fr">>
      [] seller = "Castorama" -> <<"castorama.fr">>
      [] OTHER -> <<Lower(seller), ".fr">>

\* what the provider answers to the POST for one keyword: an HTTP error
\* status, a transport error, a task with an error status, or a task with
\* its shopping products (their sellers, in order)
Replies ==
    {[kind |-> "http_error", status_code |-> 0, products |-> <<>>],
     [kind |-> "request_error", status_code |-> 0, products |-> <<>>],
     [kind |-> "task", status_code |-> 40501, products |-> <<>>]}
    \cup {[kind |-> "task", status_code |-> 20000, products |-> ps] :
            ps \in SeqsUpTo(Sellers, MaxProducts)}

AnalyzeFrame ==
    UNCHANGED <<unique_urls, url_mappings, norm_vars, call_vars, pass_vars, service_vars>>

\* entry of analyze_keywords_for_project up to the call of get_serp_results
AnalyzeKeywords ==
    /\ apc = "idle"
    /\ apc' = "fetch"
    /\ UNCHANGED <<tasks, analyzed, tx, serp_results, competitors>>
    /\ AnalyzeFrame

\* one turn of the loop of get_serp_results: the POST for the next keyword,
\* raise_for_status and the extension of combined_results['tasks']; an
\* exception leaves the loop and analyze_keywords_for_project
FetchKeyword(reply) ==
    LET k == Len(tasks) + 1
    IN  /\ apc = "fetch"
        /\ IF reply.kind \in {"http_error", "request_error"}
           THEN /\ analyzed' = [analyzed EXCEPT ![k] = "provider_error"]
                /\ apc' = "raised"
                /\ UNCHANGED tasks
           ELSE /\ tasks' = Append(tasks, [keyword |-> k, status_code |-> reply.status_code,
                                           products |-> reply.products])
                /\ analyzed' = [analyzed EXCEPT ![k] = "fetched"]
                /\ apc' = IF k = Cardinality(Keywords) THEN "process" ELSE "fetch"
        /\ UNCHANGED <<tx, serp_results, competitors>>
        /\ AnalyzeFrame

\* the SerpResult rows of a task, shopping_position counted from 1
ProductFacts(project_id, k, products) ==
    {[id |-> <<k, p>>, project_id |-> project_id, keyword_id |-> k, position |-> p,
      url |-> None, domain |-> SellerDomain(products[p]),
      competitor_id |-> <<project_id, SellerDomain(products[p])>>] : p \in DOMAIN products}

\* the competitors created for the sellers not in competitors_map
ProductCompetitors(s, project_id, products) ==
    {NewCompetitor(project_id, d) :
        d \in {SellerDomain(products[p]) : p \in DOMAIN products}
               \ {c.domain : c \in ProjectCompetitors(s, project_id)}}

\* one turn of the loop over serp_data['tasks'] of process_and_save_serp_results
ProcessTask ==
    /\ apc = "process"
    /\ \E i \in DOMAIN tasks :
        /\ analyzed[tasks[i].keyword] = "fetched"
        /\ \A j \in 1..(i - 1) : analyzed[tasks[j].keyword] # "fetched"
        /\ IF tasks[i].status_code # 20000
           THEN /\ analyzed' = [analyzed EXCEPT ![tasks[i].keyword] = "task_error"]
                /\ UNCHANGED tx
           ELSE /\ analyzed' = [analyzed EXCEPT ![tasks[i].keyword] = "processed"]
                /\ tx' = [tx EXCEPT
                        ![AnalyzeSession].facts =
                            @ \cup ProductFacts(PassProject, tasks[i].keyword,
                                                tasks[i].products),
                        ![AnalyzeSession].comps =
                            @ \cup ProductCompetitors(AnalyzeSession, PassProject,
                                                      tasks[i].products)]
    /\ UNCHANGED <<apc, tasks, serp_results, competitors>>
    /\ AnalyzeFrame

\* await session.commit() at the end of process_and_save_serp_results
CommitAnalyze ==
    /\ apc = "process"
    /\ \A i \in DOMAIN tasks : analyzed[tasks[i].keyword] # "fetched"
    /\ serp_results' = VisibleFacts(AnalyzeSession)
    /\ competitors' = VisibleCompetitors(AnalyzeSession)
    /\ tx' = [tx EXCEPT ![AnalyzeSession] = EmptyTx]
    /\ apc' = "returned"
    /\ UNCHANGED <<tasks, analyzed>>
    /\ AnalyzeFrame

NextAnalyze ==
    \/ AnalyzeKeywords
    \/ \E reply \in Replies : FetchKeyword(reply)
    \/ ProcessTask
    \/ CommitAnalyze

SpecAnalyze == Init /\ [][NextAnalyze]_vars

\* ------------------------------------- competitors of the projects
\* Explicit additions, ingestion, analyses and the detection tails of passes
\* in two sessions, for two projects.
MaxFacts == 4

\* FactBatches[k]: the domains extract_domain_from_url leaves in the facts of
\* keyword k, in provider order
FactBatches ==
    <<<<<<"shop.", "leroymerlin.fr">>, <<"shop.", "leroymerlin.fr">>>>,
      <<<<"m.", "shop.", "leroymerlin.fr">>, <<"m.", "shop.", "leroymerlin.fr">>>>>>

\* competitor_data["domain"] of add_project_competitor
CompetitorDomains == {<<"leroymerlin.fr">>, <<" ", "www.", "leroymerlin.fr">>}

CompetitorFrame ==
    UNCHANGED <<unique_urls, url_mappings, norm_vars, call_vars, pass_vars, analyze_vars,
                request, response, clock, cache>>

\* uq_competitor_project_domain: the INSERT hits a committed row, or waits
\* for the transaction that holds an uncommitted row with that key
CompetitorConflict(p, d) == \E c \in competitors : c.project_id = p /\ c.domain = d
CompetitorBlocked(s, p, d) ==
    \E s2 \in Sessions \ {s} : \E c \in tx[s2].comps : c.project_id = p /\ c.domain = d

\* POST /{project_id}/competitors
AddProjectCompetitor(p, domain) ==
    /\ ~CompetitorConflict(p, Strip(domain))
    /\ ~CompetitorBlocked(0, p, Strip(domain))
    /\ competitors' = competitors \cup {NewCompetitor(p, Strip(domain))}
    /\ UNCHANGED <<serp_results, tx, detection>>
    /\ CompetitorFrame

\* the facts of keyword k of project p, committed by a pass
IngestFacts(p, k) ==
    LET domains == FactBatches[k]
        ids == {<<"scrape", p, k, i>> : i \in DOMAIN domains}
    IN  /\ \A f \in serp_results : f.id \notin ids
        /\ Cardinality(serp_results) + Len(domains) <= MaxFacts
        /\ serp_results' = serp_results \cup
                {[id |-> <<"scrape", p, k, i>>, project_id |-> p, keyword_id |-> k,
                  position |-> i, url |-> None, domain |-> domains[i],
                  competitor_id |-> None] : i \in DOMAIN domains}
        /\ UNCHANGED <<competitors, tx, detection>>
        /\ CompetitorFrame

\* process_and_save_serp_results for one task of project p, and its commit
SaveProducts(p, products) ==
    LET new == ProductFacts(p, <<"analysis", p>>, products)
    IN  /\ \A f \in serp_results : \A g \in new : f.id # g.id
        /\ Cardinality(serp_results) + Len(products) <= MaxFacts
        /\ \A i \in DOMAIN products : ~CompetitorBlocked(0, p, SellerDomain(products[i]))
        /\ serp_results' = serp_results \cup new
        /\ competitors' = competitors \cup
                {NewCompetitor(p, d) :
                    d \in {SellerDomain(products[i]) : i \in DOMAIN products}
                           \ {c.domain : c \in {x \in competitors : x.project_id = p}}}
        /\ UNCHANGED <<tx, detection>>
        /\ CompetitorFrame

\* detect_new_competitors up to the list of the new candidates
ReadCandidates(s, p) ==
    /\ detection[s].pc = "idle"
    /\ tx[s] = EmptyTx
    /\ detection' = [detection EXCEPT ![s] =
            [pc |-> "create", project_id |-> p, candidates |-> Candidates(s, p),
             new_competitors |-> NewCandidates(s, p), created |-> FALSE]]
    /\ UNCHANGED <<serp_results, competitors, tx>>
    /\ CompetitorFrame

\* create_competitor_from_candidate for each new candidate; a flush that
\* hits the unique constraint ends the tail with the warning of scrape_project
CreateCompetitors(s) ==
    LET p == detection[s].project_id
        new == detection[s].new_competitors
    IN  /\ detection[s].pc = "create"
        /\ \A d \in new : ~CompetitorBlocked(s, p, d)
        /\ IF \E d \in new : CompetitorConflict(p, d)
           THEN /\ tx' = [tx EXCEPT ![s] = EmptyTx]
                /\ detection' = [detection EXCEPT ![s] = NoDetection]
           ELSE /\ tx' = [tx EXCEPT ![s].comps = @ \cup {NewCompetitor(p, d) : d \in new}]
                /\ detection' = [detection EXCEPT ![s].pc = "associate",
                                                  ![s].created = TRUE]
        /\ UNCHANGED <<serp_results, competitors>>
        /\ CompetitorFrame

\* update_competitor_associations(project_id)
AssociateFacts(s) ==
    /\ detection[s].pc = "associate"
    /\ tx' = [tx EXCEPT ![s].facts =
                {f \in @ : \A g \in Associated(s, detection[s].project_id) : g.id # f.id}
                \cup Associated(s, detection[s].project_id)]
    /\ detection' = [detection EXCEPT ![s].pc = "commit"]
    /\ UNCHANGED <<serp_results, competitors>>
    /\ CompetitorFrame

\* await self.session.commit() after update_competitor_associations
CommitDetection(s) ==
    /\ detection[s].pc = "commit"
    /\ serp_results' = VisibleFacts(s)
    /\ competitors' = VisibleCompetitors(s)
    /\ tx' = [tx EXCEPT ![s] = EmptyTx]
    /\ detection' = [detection EXCEPT ![s].pc = "idle", ![s].new_competitors = {}]
    /\ CompetitorFrame

NextCompetitors ==
    \/ \E p \in Projects, d \in CompetitorDomains : AddProjectCompetitor(p, d)
    \/ \E p \in Projects, k \in Keywords : IngestFacts(p, k)
    \/ \E p \in Projects : SaveProducts(p, <<"Leroy Merlin">>)
    \/ \E s \in Sessions, p \in Projects : ReadCandidates(s, p)
    \/ \E s \in Sessions : CreateCompetitors(s)
    \/ \E s \in Sessions : AssociateFacts(s)
    \/ \E s \in Sessions : CommitDetection(s)

SpecCompetitors == Init /\ [][NextCompetitors]_vars

\* ----------------------------------------------------------- analytics
MaxObservations == 3
DefaultPeriodDays == 30
DefaultReferenceSite == <<"somfy.fr">>

\* Project.reference_site of the projects that exist
reference_site == [p \in Projects |-> IF p = PassProject THEN <<"leroymerlin.fr">> ELSE None]

\* the ids a request may name: the projects and one id without a project
RequestedProjects == Projects \cup {Cardinality(Projects) + 1}

\* keywords belong to the project of the pass
ProjectKeywords(p) == IF p = PassProject THEN Keywords ELSE {}

\* (domain, merchant_name) of the facts recorded
FactKinds ==
    {<<<<"leroymerlin.fr">>, <<"Leroy Merlin">>>>, <<<<"leroymerlin.fr">>, None>>,
     <<None, <<"Shop">>>>}
Positions == {None, <<3>>, <<5>>}

AnalyticsFrame ==
    UNCHANGED <<norm_vars, db_vars, call_vars, url_mappings, competitors, pass_vars,
                analyze_vars, detection, clock, cache>>

\* the time of the latest scrape, which the requests take as now
Now == IF serp_results = {} THEN 0
       ELSE (CHOOSE f \in serp_results : \A g \in serp_results : g.scraped_at <= f.scraped_at).scraped_at

\* a fact of the project reaches table serp_results: scraped_at has the
\* server default now(), the start of the transaction, so the facts of one
\* scrape share it and a new scrape is one time unit later; the listings of
\* a keyword in one scrape have different positions
RecordFact(k, kind, position, new_scrape) ==
    /\ Cardinality(serp_results) < MaxObservations
    /\ \A f \in serp_results :
            (~new_scrape /\ f.keyword_id = k /\ f.scraped_at = Now /\ position # None)
            => f.position # position
    /\ serp_results' = serp_results \cup
            {[id |-> Cardinality(serp_results) + 1, project_id |-> PassProject,
              keyword_id |-> k, position |-> position, domain |-> kind[1],
              merchant_name |-> kind[2],
              scraped_at |-> IF new_scrape \/ serp_results = {} THEN Now + 1 ELSE Now]}
    /\ request' = None
    /\ response' = None
    /\ AnalyticsFrame

HTTPException(status_code) == [status_code |-> status_code]

\* the facts of the project in the period
InPeriod(p, period_start, period_end) ==
    {f \in serp_results : /\ f.project_id = p
                          /\ period_start <= f.scraped_at
                          /\ f.scraped_at <= period_end}

\* the rows of the query grouped by (domain, merchant_name), each with its
\* share_percentage as the fraction <<numerator, denominator>>
ShareOfVoiceItems(facts, total_appearances) ==
    {[domain |-> g[1], merchant_name |-> g[2],
      appearances |-> Cardinality({f \in facts : <<f.domain, f.merchant_name>> = g}),
      share_percentage |->
        IF total_appearances > 0
        THEN <<Cardinality({f \in facts : <<f.domain, f.merchant_name>> = g}) * 100,
               Max(total_appearances, 1)>>
        ELSE <<0, 1>>] :
     g \in {<<f.domain, f.merchant_name>> : f \in {f2 \in facts : f2.domain # None}}}

ShareOfVoiceResponse(p, period_start, period_end) ==
    [status_code |-> 200, project_id |-> p,
     period_start |-> period_start, period_end |-> period_end,
     total_appearances |-> Cardinality(InPeriod(p, period_start, period_end)),
     competitors |-> ShareOfVoiceItems(InPeriod(p, period_start, period_end),
                                       Cardinality(InPeriod(p, period_start, period_end)))]

\* the period a request is answered for
PeriodEnd(period) == IF period[2] = None THEN Now ELSE period[2][1]
PeriodStart(period) ==
    IF period[1] = None THEN PeriodEnd(period) - DefaultPeriodDays ELSE period[1][1]

\* AnalyticsService.get_share_of_voice
get_share_of_voice(p, period) ==
    IF p \notin Projects THEN HTTPException(404)
    ELSE ShareOfVoiceResponse(p, PeriodStart(period), PeriodEnd(period))

\* the endpoint: every exception of the service is answered with 500
GetShareOfVoice(p, period) ==
    /\ request' = [call |-> "get_share_of_voice", project_id |-> p, period |-> period]
    /\ response' = IF get_share_of_voice(p, period).status_code # 200
                   THEN HTTPException(500)
                   ELSE get_share_of_voice(p, period)
    /\ UNCHANGED serp_results
    /\ AnalyticsFrame

\* the facts of the positions query of a keyword, before ORDER BY and LIMIT
Positioned(k, site) ==
    {f \in serp_results : f.keyword_id = k /\ f.domain = site /\ f.position # None}

\* the results the positions query can have: ORDER BY scraped_at DESC
\* LIMIT 2 gives at most two rows, latest first; rows with the same
\* scraped_at come in any order
LatestPositions(k, site) ==
    {positions \in SeqsUpTo(Positioned(k, site), 2) :
        /\ Len(positions) = Min(2, Cardinality(Positioned(k, site)))
        /\ \A i, j \in DOMAIN positions :
                i < j => (positions[i] # positions[j]
                          /\ positions[i].scraped_at >= positions[j].scraped_at)
        /\ \A f \in Positioned(k, site) \ Range(positions) :
                \A i \in DOMAIN positions : f.scraped_at <= positions[i].scraped_at}

Trend(current_position, previous_position) ==
    IF current_position # None /\ previous_position # None
    THEN (IF current_position[1] < previous_position[1] THEN "up"
          ELSE IF current_position[1] > previous_position[1] THEN "down"
          ELSE "stable")
    ELSE IF current_position # None THEN "new"
    ELSE IF previous_position # None THEN "lost"
    ELSE "stable"

KeywordPosition(k, positions) ==
    [keyword_id |-> k,
     current_position |-> IF Len(positions) > 0 THEN positions[1].position ELSE None,
     previous_position |-> IF Len(positions) > 1 THEN positions[2].position ELSE None,
     trend |-> Trend(IF Len(positions) > 0 THEN positions[1].position ELSE None,
                     IF Len(positions) > 1 THEN positions[2].position ELSE None),
     last_scraped |-> IF Len(positions) > 0 THEN <<positions[1].scraped_at>> ELSE None]

\* the key of the final sort
SortKey(entry) == IF entry.current_position # None THEN entry.current_position[1] ELSE 999

\* the orders keywords_positions.sort can leave the entries in; the order
\* of the keywords query is not specified
SortedEntries(entries) ==
    {seq \in [1..Cardinality(entries) -> entries] :
        /\ Range(seq) = entries
        /\ \A i, j \in DOMAIN seq : i < j => SortKey(seq[i]) <= SortKey(seq[j])}

\* reference_site of the request: Project.reference_site or the default
ReferenceSiteOf(p) ==
    IF reference_site[p] # None THEN reference_site[p] ELSE DefaultReferenceSite

\* the lists keywords_positions the loop over the keywords can build
KeywordsPositions(p) ==
    {{KeywordPosition(k, positions[k]) : k \in ProjectKeywords(p)} :
        positions \in
            {ps \in [ProjectKeywords(p) -> UNION {LatestPositions(k, ReferenceSiteOf(p)) :
                                                    k \in ProjectKeywords(p)}] :
                \A k \in ProjectKeywords(p) : ps[k] \in LatestPositions(k, ReferenceSiteOf(p))}}

\* the endpoint re-raises the HTTPException of the service
GetKeywordsPositions(p) ==
    /\ request' = [call |-> "get_keywords_positions", project_id |-> p]
    /\ IF p \notin Projects THEN response' = HTTPException(404)
       ELSE \E entries \in KeywordsPositions(p) : \E keywords \in SortedEntries(entries) :
                response' = [status_code |-> 200, project_id |-> p,
                             reference_site |-> ReferenceSiteOf(p),
                             total_keywords |-> Len(keywords),
                             keywords |-> keywords]
    /\ UNCHANGED serp_results
    /\ AnalyticsFrame

DashboardWindowDays == 7

\* the facts of the project scraped in the last week
LastWeek(p) ==
    {f \in serp_results : /\ f.project_id = p
                          /\ f.scraped_at >= Now - DashboardWindowDays}
WithPosition(facts) == {f \in facts : f.position # None}

RECURSIVE PositionSum(_)
PositionSum(facts) ==
    IF facts = {} THEN 0
    ELSE One(facts).position[1] + PositionSum(facts \ {One(facts)})

\* func.avg(SerpResult.position) as the fraction <<sum, count>>, None over
\* no row
Avg(facts) == IF facts = {} THEN None ELSE <<PositionSum(facts), Cardinality(facts)>>

\* metrics.average_position: the average over the facts of the project with
\* a position, None when it is falsy
average_position(p) ==
    IF Avg(WithPosition(LastWeek(p))) = None \/ PositionSum(WithPosition(LastWeek(p))) = 0
    THEN None
    ELSE Avg(WithPosition(LastWeek(p)))

\* metrics.visibility_score as a fraction: min(100, max(0, 100 - 5 * avg) *
\* appearances / max(total_keywords, 1))
Visibility(sum, n, appearances, total_keywords) ==
    IF Max(0, 100 * n - 5 * sum) * appearances > 100 * n * Max(total_keywords, 1)
    THEN <<100, 1>>
    ELSE <<Max(0, 100 * n - 5 * sum) * appearances, n * Max(total_keywords, 1)>>

visibility_score(p, total_keywords) ==
    IF WithPosition(LastWeek(p)) = {} \/ PositionSum(WithPosition(LastWeek(p))) = 0
    THEN <<0, 1>>
    ELSE Visibility(PositionSum(WithPosition(LastWeek(p))),
                    Cardinality(WithPosition(LastWeek(p))),
                    Cardinality(LastWeek(p)), total_keywords)

\* AnalyticsService.get_dashboard_metrics: the HTTPException(404) is raised
\* inside the try whose 'except Exception' answers every exception with 500
get_dashboard_metrics(p) ==
    IF (IF p \notin Projects THEN HTTPException(404) ELSE [status_code |-> 200]).status_code # 200
    THEN HTTPException(500)
    ELSE [status_code |-> 200, project_id |-> p,
          total_keywords |-> Cardinality(ProjectKeywords(p)),
          average_position |-> average_position(p),
          visibility_score |-> visibility_score(p, Cardinality(ProjectKeywords(p)))]

GetDashboardMetrics(p) ==
    /\ request' = [call |-> "get_dashboard_metrics", project_id |-> p]
    /\ response' = IF get_dashboard_metrics(p).status_code # 200
                   THEN HTTPException(500)
                   ELSE get_dashboard_metrics(p)
    /\ UNCHANGED serp_results
    /\ AnalyticsFrame

\* scrape_project on an id without a project: get_project_with_keywords
\* raises NotFoundError, which scrape_project re-raises
ScrapeUnknownProject(p) ==
    /\ p \notin Projects
    /\ request' = [call |-> "scrape_project", project_id |-> p]
    /\ response' = [raised |-> "NotFoundError"]
    /\ UNCHANGED serp_results
    /\ AnalyticsFrame

NextAnalytics ==
    \/ \E k \in Keywords, kind \in FactKinds, position \in Positions, new_scrape \in BOOLEAN :
            RecordFact(k, kind, position, new_scrape)
    \/ \E p \in RequestedProjects, period \in {<<None, None>>, <<<<2>>, <<2>>>>} :
            GetShareOfVoice(p, period)
    \/ \E p \in RequestedProjects : GetKeywordsPositions(p)
    \/ \E p \in RequestedProjects : GetDashboardMetrics(p)
    \/ \E p \in RequestedProjects : ScrapeUnknownProject(p)

SpecAnalytics == Init /\ [][NextAnalytics]_vars

\* ------------------------------------- calculate_domain_authority_score
MaxAppearances == 26
MaxPositionHalves == 62
PriceTenths == {0, 5, 10}
ScoredDomains == {<<"amazon.fr">>, <<"www.", "leroymerlin.fr">>}

\* the scores in tenths of a point; avg_position in halves, and
\* price_competitiveness in tenths
appearance_score(appearances) == 10 * Min(appearances * 2, 50)
position_score_Unclamped(avg_position) == 300 - 5 * avg_position
position_score(avg_position) == Max(0, 300 - 5 * avg_position)
price_score(price_competitiveness) == price_competitiveness * 20
marketplace_bonus(domain) == IF is_marketplace_domain(domain) THEN 100 ELSE 0

calculate_domain_authority_score(domain, appearances, avg_position, price_competitiveness) ==
    Min(appearance_score(appearances) + position_score(avg_position)
            + price_score(price_competitiveness) + marketplace_bonus(domain),
        1000)

ScoreFrame ==
    UNCHANGED <<norm_vars, db_vars, call_vars, table_vars, pass_vars, analyze_vars,
                detection, clock, cache>>

\* a call of calculate_domain_authority_score
CalculateScore(domain, appearances, avg_position, price_competitiveness) ==
    /\ request' = [call |-> "calculate_domain_authority_score", domain |-> domain,
                   appearances |-> appearances, avg_position |-> avg_position,
                   price_competitiveness |-> price_competitiveness]
    /\ response' = [score |-> calculate_domain_authority_score(
                        domain, appearances, avg_position, price_competitiveness)]
    /\ ScoreFrame

\* after a first call on any inputs, the call again with one appearance
\* more, with the average position half a position worse
WithMoreAppearances ==
    /\ request # None
    /\ request.appearances < MaxAppearances
    /\ CalculateScore(request.domain, request.appearances + 1, request.avg_position,
                      request.price_competitiveness)

WithWorsePosition ==
    /\ request # None
    /\ request.avg_position < MaxPositionHalves
    /\ CalculateScore(request.domain, request.appearances, request.avg_position + 1,
                      request.price_competitiveness)

NextScore ==
    \/ \E domain \in ScoredDomains, appearances \in 0..MaxAppearances,
          avg_position \in 0..MaxPositionHalves, price_competitiveness \in PriceTenths :
            request = None /\ CalculateScore(domain, appearances, avg_position, price_competitiveness)
    \/ WithMoreAppearances
    \/ WithWorsePosition

SpecScore == Init /\ [][NextScore]_vars

\* ------------------------------------------- get_urls_needing_scraping
MaxClock == 3
ScrapedUrls == <<Render(Example1), OtherUrl>>
Limits == {0, 1, 2}
MaxAgeHours == {0, 1, 2}

RetryFrame ==
    UNCHANGED <<norm_vars, tx, call_vars, table_vars, pass_vars, analyze_vars, detection,
                cache>>

\* get_or_create_unique_url on a URL without a row, committed
RegisterUrl(i, product_data) ==
    /\ \A r \in unique_urls : r.id # <<i>>
    /\ unique_urls' = unique_urls \cup
            {NewUniqueUrl(<<i>>, ScrapedUrls[i], product_data, <<clock>>)}
    /\ request' = None
    /\ response' = None
    /\ UNCHANGED clock
    /\ RetryFrame

\* update_scraping_status on a row, committed
MarkScraped(i, status, error_message) ==
    /\ \E r \in unique_urls : r.id = <<i>>
    /\ unique_urls' = {r \in unique_urls : r.id # <<i>>} \cup
            {Updated(One({r \in unique_urls : r.id = <<i>>}), status,
                     IF status = "completed" THEN <<"data">> ELSE None,
                     error_message, <<clock>>)}
    /\ request' = None
    /\ response' = None
    /\ UNCHANGED clock
    /\ RetryFrame

\* an hour passes
Tick ==
    /\ clock < MaxClock
    /\ clock' = clock + 1
    /\ request' = None
    /\ response' = None
    /\ UNCHANGED unique_urls
    /\ RetryFrame

NeedsScraping_AnyAge(row, cutoff_date) ==
    row.scraping_status \in {"pending", "failed"}

\* the WHERE clause of get_urls_needing_scraping
NeedsScraping(row, cutoff_date) ==
    /\ row.scraping_status \in {"pending", "failed"}
    /\ \/ row.last_scraped = None
       \/ row.last_scraped[1] < cutoff_date

\* the results of the statement: LIMIT without ORDER BY returns any limit
\* of the rows that satisfy the WHERE clause
Limited(rows, limit) ==
    {urls \in SUBSET rows : Cardinality(urls) = Min(limit, Cardinality(rows))}

GetUrlsNeedingScraping(limit, max_age_hours) ==
    /\ request' = [call |-> "get_urls_needing_scraping", limit |-> limit,
                   max_age_hours |-> max_age_hours]
    /\ \E urls \in Limited({r \in unique_urls : NeedsScraping(r, clock - max_age_hours)},
                           limit) :
            response' = [urls |-> urls]
    /\ UNCHANGED <<unique_urls, clock>>
    /\ RetryFrame

NextRetry ==
    \/ \E i \in DOMAIN ScrapedUrls, product_data \in {None, <<"data">>} :
            RegisterUrl(i, product_data)
    \/ \E i \in DOMAIN ScrapedUrls, status \in Statuses, error_message \in BOOLEAN :
            MarkScraped(i, status, error_message)
    \/ Tick
    \/ \E limit \in Limits, max_age_hours \in MaxAgeHours :
            GetUrlsNeedingScraping(limit, max_age_hours)

SpecRetry == Init /\ [][NextRetry]_vars

\* ---------------------------------------------------------- CacheService
cache_prefix == "shopping_monitor"

\* period_start and period_end of the cached analytics, as days
Periods == {<<1, 2>>, <<2, 3>>}
PeriodPrefixes == {"share_of_voice", "position_matrix", "opportunities"}

\* json.dumps(kwargs, sort_keys=True, default=str), one token per JSON token
json_dumps(kwargs) ==
    IF kwargs.period = None
    THEN <<"{", "project_id", ":", ToString(kwargs.project_id), "}">>
    ELSE <<"{", "period_end", ":", ToString(kwargs.period[2]), ",",
           "period_start", ":", ToString(kwargs.period[1]), ",",
           "project_id", ":", ToString(kwargs.project_id), "}">>

\* hashlib.md5(s).hexdigest(), shortened to four digits: a fixed function of
\* the string whose value is made of hexadecimal digits only; it tells the
\* strings hashed here apart, as md5 does
HexDigits == <<"0", "1", "2", "3", "4", "5", "6", "7", "8", "9", "a", "b", "c", "d", "e", "f">>
Alphabet == <<"{", "}", ":", ",", "project_id", "period_start", "period_end",
              "0", "1", "2", "3", "4", "5", "6", "7", "8", "9">>
CodeOf(token) == CHOOSE i \in DOMAIN Alphabet : Alphabet[i] = token

RECURSIVE Mix(_, _)
Mix(s, h) == IF s = <<>> THEN h ELSE Mix(Tail(s), (h * 31 + CodeOf(Head(s))) % 65536)

hexdigest(h) ==
    <<HexDigits[(h \div 4096) + 1], HexDigits[((h \div 256) % 16) + 1],
      HexDigits[((h \div 16) % 16) + 1], HexDigits[(h % 16) + 1]>>
md5(s) == hexdigest(Mix(s, 7))

\* f"{self.cache_prefix}:{prefix}:{params_hash}"
generate_cache_key(prefix, kwargs) ==
    <<cache_prefix, ":", prefix, ":">> \o md5(json_dumps(kwargs))

dashboard_key(p) == generate_cache_key("dashboard", [project_id |-> p, period |-> None])
period_key(prefix, p, period) ==
    generate_cache_key(prefix, [project_id |-> p, period |-> period])

\* KEYS pattern of Redis: "*" stands for any run of characters, every other
\* token for itself
RECURSIVE GlobMatch(_, _)
GlobMatch(pattern, key) ==
    IF pattern = <<>> THEN key = <<>>
    ELSE IF Head(pattern) = "*"
    THEN GlobMatch(Tail(pattern), key) \/ (key # <<>> /\ GlobMatch(pattern, Tail(key)))
    ELSE key # <<>> /\ Head(key) = Head(pattern) /\ GlobMatch(Tail(pattern), Tail(key))

\* patterns of invalidate_project_cache
ProjectPatterns(p) ==
    {<<prefix, ":", "*", "project_id", "*", ToString(p), "*">> :
        prefix \in {"share_of_voice", "position_matrix", "dashboard", "opportunities",
                    "trends", "competitors"}}

\* the keys invalidate_pattern deletes: keys(f"{cache_prefix}:{pattern}*")
PatternKeys(pattern) ==
    {key \in cache.keys : GlobMatch(<<cache_prefix, ":">> \o pattern \o <<"*">>, key)}

\* CacheService.get: None without a client or without the key
get(cache_key) ==
    IF ~cache.redis_client \/ cache_key \notin cache.keys THEN None ELSE <<"data">>

CacheFrame ==
    UNCHANGED <<norm_vars, db_vars, call_vars, table_vars, pass_vars, analyze_vars,
                detection, clock>>

\* connect: the client is kept if the ping succeeds, None otherwise
Connect(ok) ==
    /\ cache' = [cache EXCEPT !.redis_client = ok]
    /\ request' = None
    /\ response' = None
    /\ CacheFrame

\* CacheService.set: setex, or False without a client
Set(cache_key) ==
    /\ cache' = IF cache.redis_client THEN [cache EXCEPT !.keys = @ \cup {cache_key}]
                ELSE cache
    /\ request' = None
    /\ response' = None
    /\ CacheFrame

SetDashboardMetrics(p) == Set(dashboard_key(p))
SetShareOfVoice(p, period) == Set(period_key("share_of_voice", p, period))
SetPositionMatrix(p, period) == Set(period_key("position_matrix", p, period))
SetOpportunities(p, period) == Set(period_key("opportunities", p, period))

\* the TTL of an entry runs out
Expire(cache_key) ==
    /\ cache_key \in cache.keys
    /\ cache' = [cache EXCEPT !.keys = @ \ {cache_key}]
    /\ request' = None
    /\ response' = None
    /\ CacheFrame

\* invalidate_project_cache: invalidate_pattern for each pattern
InvalidateProjectCache(p) ==
    /\ request' = [call |-> "invalidate_project_cache", project_id |-> p]
    /\ IF ~cache.redis_client
       THEN /\ response' = [total_deleted |-> 0]
            /\ UNCHANGED cache
       ELSE /\ response' = [total_deleted |->
                    Cardinality(UNION {PatternKeys(pattern) : pattern \in ProjectPatterns(p)})]
            /\ cache' = [cache EXCEPT !.keys =
                    @ \ UNION {PatternKeys(pattern) : pattern \in ProjectPatterns(p)}]
    /\ CacheFrame

NextCache ==
    \/ \E ok \in BOOLEAN : Connect(ok)
    \/ \E p \in Projects : SetDashboardMetrics(p)
    \/ \E p \in Projects, period \in Periods : SetShareOfVoice(p, period)
    \/ \E p \in Projects, period \in Periods : SetPositionMatrix(p, period)
    \/ \E p \in Projects, period \in Periods : SetOpportunities(p, period)
    \/ \E cache_key \in cache.keys : Expire(cache_key)
    \/ \E p \in Projects : InvalidateProjectCache(p)

SpecCache == Init /\ [][NextCache]_vars

\* ------------------------------------------------------------- claims
\* C3: two URLs with the same host (up to a leading www.), the same path (up
\* to a trailing slash) and the same non-tracking parameters, differing only
\* in tracking parameters, www. or the http/https scheme, have the same
\* canonical string.
C3_EquivalentUrlsCollapse ==
    npc = "done" => normalized = other_normalized

\* C4: canonicalization is idempotent, normalize_url(normalize_url(u)) =
\* normalize_url(u) for every input u.
C4_Idempotent ==
    npc \in {"again", "done"} => renormalized = normalized

\* every task is between calls and no session has uncommitted work
RegistryQuiet ==
    /\ \A t \in Callers : tpc[t] = "idle"
    /\ \A s \in Sessions : tx[s] = EmptyTx

\* C1: whatever the order and interleaving of the lookups and inserts of the
\* calls made on raw URLs with one canonical URL, in one session or in
\* several, the registry ends with exactly one row for that canonical URL.
C1_ExactlyOneRow ==
    RegistryQuiet =>
        \A u \in requested : Cardinality({r \in unique_urls : r.url = u}) = 1

\* C2: the call that loses the race for a new canonical URL does not fail:
\* no call ends with the uniqueness violation raised to its caller.
C2_LoserDoesNotFail ==
    \A t \in Callers : outcome[t] # "IntegrityError"

\* a call of t that found a row for its canonical URL
FoundExisting(t) ==
    /\ tpc[t] = "idle"
    /\ calls'[t] = calls[t] + 1
    /\ outcome'[t] = "returned"

\* C8: a call on a canonical URL that has a row creates no second row and
\* changes the row only if the row has no product data and data is supplied:
\* then the data is attached, the status is completed and last_scraped is the
\* time of the call; otherwise data, status and last_scraped are unchanged.
C8_ExistingRowFrame ==
    [][\A t \in Callers : FoundExisting(t) =>
        LET s == SessionOf(t)
            old == One(SelectByUrl(s, Canonical[cur'[t].url]))
            pd == cur'[t].product_data
        IN  /\ unique_urls' = unique_urls
            /\ {r.id : r \in Visible(s)'} = {r.id : r \in Visible(s)}
            /\ \A r \in Visible(s) : r.id # old.id => r \in Visible(s)'
            /\ IF ~Truthy(old.product_data) /\ Truthy(pd)
               THEN [old EXCEPT !.product_data = pd,
                                !.scraping_status = "completed",
                                !.last_scraped = <<t, calls'[t]>>] \in Visible(s)'
               ELSE old \in Visible(s)'
      ]_vars

\* a call filled in the data of a row that another call had created without
C8_Witness ==
    \E t \in Callers :
        /\ outcome[t] = "returned"
        /\ \E r \in Visible(SessionOf(t)) :
            /\ r.id # Stamp(t)
            /\ r.last_scraped = Stamp(t)
            /\ r.product_data = cur[t].product_data
            /\ r.scraping_status = "completed"

\* C9: a call on a canonical URL without a row creates exactly one row, with
\* status completed and last_scraped set if product data was supplied, with
\* status pending and last_scraped unset otherwise.
C9_NewRowStatus ==
    [][\A t \in Callers :
        LET s == SessionOf(t)
            u == Canonical[cur[t].url]
            pd == cur[t].product_data
            added == Visible(s)' \ Visible(s)
        IN  (/\ tpc[t] = "insert" /\ tpc'[t] = "idle"
             /\ tx[s].state = "active"
             /\ SelectByUrl(s, u) = {})
            => /\ Cardinality(added) = 1
               /\ Visible(s) \subseteq Visible(s)'
               /\ \A r \in added :
                    /\ r.url = u
                    /\ r.product_data = pd
                    /\ r.scraping_status = (IF Truthy(pd) THEN "completed" ELSE "pending")
                    /\ (r.last_scraped # None) <=> Truthy(pd)
      ]_vars

\* a call created a completed row and another one a pending row
C9_Witness ==
    /\ \E t \in Callers : \E r \in Visible(SessionOf(t)) :
        r.id = Stamp(t) /\ r.scraping_status = "completed" /\ r.last_scraped = Stamp(t)
    /\ \E t \in Callers : \E r \in Visible(SessionOf(t)) :
        r.id = Stamp(t) /\ r.scraping_status = "pending" /\ r.last_scraped = None

\* C5: when the ingestion of a keyword fails in a pass, the pass returns
\* normally, every keyword has its entry, no other keyword fails because of
\* it, and the facts of every keyword that succeeded are committed.
C5_FailureIsolated ==
    (ppc \in {"returned", "raised"} /\ \E k \in Keywords : ~results[k].success)
    => /\ ppc = "returned"
       /\ \A k \in Keywords : results[k].done
       /\ \A k \in Keywords : ~results[k].success => results[k].error # "PendingRollbackError"
       /\ \A k \in Keywords : results[k].success =>
            {f.id : f \in NewFacts(k, deduplicated[k])} \subseteq {f.id : f \in serp_results}

AllCarryUrl(items) == \A i \in DOMAIN items : items[i].url # <<>>
CanonicalsOf(items) == {Canonical[items[i].url] : i \in DOMAIN items}
RowsCreatedBy(k) == {r \in Visible(PassSession) : r.id[1] = k}
FactsOf(k) == {f \in VisibleFacts(PassSession) : f.keyword_id = k}

\* C7: when the ingestion of a keyword's batch of n listings completes, all
\* listings carrying a URL and no canonical URL of the batch registered by
\* anything else, the keyword has created one row per distinct canonical URL
\* of the batch and n facts, the fact at position i being listing i of the
\* batch, for i = 1..n.
C7_BatchRowsAndFacts ==
    [][\A k \in Keywords :
        (/\ kpc[k] = "map"
         /\ results'[k].success
         /\ AllCarryUrl(batch[k])
         /\ \A r \in Visible(PassSession)' :
                r.url \in CanonicalsOf(batch[k]) => r.id[1] = k)
        => /\ {r.url : r \in RowsCreatedBy(k)'} = CanonicalsOf(batch[k])
           /\ Cardinality(RowsCreatedBy(k)') = Cardinality(CanonicalsOf(batch[k]))
           /\ Cardinality(FactsOf(k)') = Len(batch[k])
           /\ \A i \in DOMAIN batch[k] :
                \E f \in FactsOf(k)' : f.position = i /\ f.url = batch[k][i].url
      ]_vars

\* three listings, two of them with one canonical URL: 2 rows, 3 facts at
\* positions 1, 2, 3
C7_Witness ==
    /\ results[1].success
    /\ batch[1] = <<ItemA, ItemB, ItemC>>
    /\ Cardinality(RowsCreatedBy(1)) = 2
    /\ {f.position : f \in FactsOf(1)} = {1, 2, 3}
    /\ Cardinality(FactsOf(1)) = 3

\* C10: detection and the association backfill run at most once in a pass,
\* and a step that runs one of them, creates a competitor or attributes a
\* fact is taken only when every keyword task of the pass has completed.
C10_DetectionAfterAllTasks ==
    /\ [](runs.detection <= 1 /\ runs.backfill <= 1)
    /\ [][(\/ runs' # runs
           \/ VisibleCompetitors(PassSession)' # VisibleCompetitors(PassSession)
           \/ {f \in VisibleFacts(PassSession)' : f.competitor_id # None}
                # {f \in VisibleFacts(PassSession) : f.competitor_id # None})
          => \A k \in Keywords : kpc[k] = "done"]_vars

\* a pass that detected a competitor and attributed facts to it
C10_Witness ==
    /\ ppc = "returned"
    /\ runs = [detection |-> 1, backfill |-> 1]
    /\ competitors # {}
    /\ \E f \in serp_results : f.competitor_id # None

\* C6: when the provider fails for a keyword of an analysis, the analysis
\* still returns, and every other requested keyword has been fetched and
\* the facts of its listings are persisted.
C6_ProviderFailureIsolated ==
    (/\ apc \in {"returned", "raised"}
     /\ \E k \in Keywords : analyzed[k] \in {"provider_error", "task_error"})
    => /\ apc = "returned"
       /\ \A k \in Keywords :
            analyzed[k] \notin {"provider_error", "task_error"}
            => /\ \E i \in DOMAIN tasks : tasks[i].keyword = k
               /\ \A i \in DOMAIN tasks : tasks[i].keyword = k =>
                    ProductFacts(PassProject, k, tasks[i].products) \subseteq serp_results

\* C11: when update_competitor_associations(project) completes, the project
\* has no fact (as the session of the call reads the table) whose competitor
\* reference is unset while its normalized domain is the normalized domain of
\* one of the project's competitors, whenever the facts were ingested.
C11_BackfillComplete ==
    [][\A s \in Sessions :
        (detection[s].pc = "associate" /\ detection'[s].pc = "commit")
        => \A f \in ProjectFacts(s, detection[s].project_id)' :
            ~(/\ f.competitor_id = None
              /\ f.domain # None
              /\ \E c \in ProjectCompetitors(s, detection[s].project_id)' :
                    normalize_domain(c.domain) = normalize_domain(f.domain))
      ]_vars

\* the backfill attributed a fact to a competitor that was added explicitly,
\* under a domain written differently, after the fact had been ingested
C11_Witness ==
    \E s \in Sessions :
        /\ detection[s].pc = "commit"
        /\ \E f \in tx[s].facts : \E c \in competitors :
            /\ f.competitor_id = c.id
            /\ c.project_id = f.project_id
            /\ c.domain # f.domain
            /\ f.id[1] = "scrape"

\* C12: no project ever has two Competitor rows whose domains normalize to
\* the same value, whatever explicit additions, analyses and detection tails
\* (two of them concurrent included) have run.
C12_OneCompetitorPerDomain ==
    \A c1, c2 \in competitors :
        (/\ c1.project_id = c2.project_id
         /\ normalize_domain(c1.domain) = normalize_domain(c2.domain))
        => c1 = c2

\* C13: in every reachable state a fact whose competitor reference is set
\* refers to a Competitor of the project of the fact, in the committed tables
\* and in the tables as each session reads them.
C13_ReferenceInProject ==
    /\ \A f \in serp_results : f.competitor_id # None =>
            \E c \in competitors : c.id = f.competitor_id /\ c.project_id = f.project_id
    /\ \A s \in Sessions : \A f \in VisibleFacts(s) : f.competitor_id # None =>
            \E c \in VisibleCompetitors(s) :
                c.id = f.competitor_id /\ c.project_id = f.project_id

\* both projects have a competitor for one normalized domain; a scraped fact
\* was attributed by the backfill and a fact of an analysis by the inline
\* creation
C13_Witness ==
    /\ \E c1, c2 \in competitors :
        /\ c1.project_id # c2.project_id
        /\ normalize_domain(c1.domain) = normalize_domain(c2.domain)
    /\ \E f \in serp_results : f.id[1] = "scrape" /\ f.competitor_id # None
    /\ \E f \in serp_results : f.id[1] # "scrape" /\ f.competitor_id # None

\* C14: over the calls of get_or_create_unique_url and
\* update_scraping_status, the status of a row changes only from pending to
\* completed, from pending to failed and from failed to pending.
C14_StatusTransitions ==
    [][\A t \in Callers :
        (calls'[t] = calls[t] + 1 /\ tx'[SessionOf(t)].state = "active")
        => \A r \in Visible(SessionOf(t)) : \A r2 \in Visible(SessionOf(t))' :
            (r.id = r2.id /\ r.scraping_status # r2.scraping_status)
            => <<r.scraping_status, r2.scraping_status>> \in
                    {<<"pending", "completed">>, <<"pending", "failed">>,
                     <<"failed", "pending">>}
      ]_vars

RECURSIVE SumAppearances(_)
SumAppearances(items) ==
    IF items = {} THEN 0
    ELSE One(items).appearances + SumAppearances(items \ {One(items)})

RECURSIVE SumShares(_)
SumShares(items) ==
    IF items = {} THEN 0
    ELSE One(items).share_percentage[1] + SumShares(items \ {One(items)})

Observations(k, site) == {f \in serp_results : f.keyword_id = k /\ f.domain = site}
LatestOf(facts) == {f \in facts : \A g \in facts : g.scraped_at <= f.scraped_at}

\* the position of the most recent observation and of the one before it
CurrentObserved(k, site) ==
    IF Observations(k, site) = {} THEN None
    ELSE One(LatestOf(Observations(k, site))).position
PreviousObserved(k, site) ==
    IF Observations(k, site) \ LatestOf(Observations(k, site)) = {} THEN None
    ELSE One(LatestOf(Observations(k, site) \ LatestOf(Observations(k, site)))).position

\* C16: the trend get_keywords_positions reports for a keyword is up if the
\* current position is smaller than the previous one, down if larger, stable
\* if equal, new if there is a current position and no previous one, lost if
\* there is a previous position and no current one.
C16_TrendClassification ==
    (/\ request # None
     /\ request.call = "get_keywords_positions"
     /\ response.status_code = 200)
    => \A i \in DOMAIN response.keywords :
        LET e == response.keywords[i]
            c == CurrentObserved(e.keyword_id, response.reference_site)
            p == PreviousObserved(e.keyword_id, response.reference_site)
        IN  /\ (c # None /\ p # None /\ c[1] < p[1]) => e.trend = "up"
            /\ (c # None /\ p # None /\ c[1] > p[1]) => e.trend = "down"
            /\ (c # None /\ p # None /\ c[1] = p[1]) => e.trend = "stable"
            /\ (c # None /\ p = None) => e.trend = "new"
            /\ (c = None /\ p # None) => e.trend = "lost"

\* C17: a request that names an id without a project ends as not found:
\* the dashboard, share-of-voice and keyword-positions endpoints answer 404,
\* and scrape_project raises NotFoundError.
C17_UnknownProjectNotFound ==
    (request # None /\ request.project_id \notin Projects)
    => IF request.call = "scrape_project"
       THEN response = [raised |-> "NotFoundError"]
       ELSE response = HTTPException(404)

\* the provider calls in flight: the keyword tasks inside get_shopping_serp
InFlight == {k \in Keywords : kpc[k] = "fetch"}

\* C18: during a pass the number of provider calls in flight never exceeds
\* the ceiling the semaphore was created with (the max_concurrent argument,
\* by default min(number of keywords, 5)), also while calls fail or are
\* retried.
C18_ConcurrencyCeiling ==
    /\ Cardinality(InFlight) <= semaphore
    /\ ppc # "idle" => semaphore \in {1, Min(Cardinality(Keywords), DefaultMaxConcurrent)}

\* with ceiling 1, a keyword waits while the call of the other one is
\* retried
C18_Witness ==
    /\ semaphore = 1
    /\ \E k \in Keywords : kpc[k] = "fetch" /\ attempts[k] > 1
    /\ \E k \in Keywords : kpc[k] = "waiting"

\* request' differs from request in the one input named only
OnlyChanged(field) ==
    /\ request # None
    /\ request' # None
    /\ \A f \in {"domain", "appearances", "avg_position", "price_competitiveness"} \ {field} :
            request'[f] = request[f]

\* C19: calculate_domain_authority_score does not decrease when the
\* appearances grow and does not increase when the average position grows,
\* the other inputs fixed, and for appearances >= 0, average position >= 0
\* and price competitiveness in [0, 1] its value is in [0, 100].
C19_ScoreMonotonicInRange ==
    /\ [](response # None => (0 <= response.score /\ response.score <= 1000))
    /\ [][(OnlyChanged("appearances") /\ request'.appearances >= request.appearances)
            => response'.score >= response.score]_vars
    /\ [][(OnlyChanged("avg_position") /\ request'.avg_position >= request.avg_position)
            => response'.score <= response.score]_vars

\* a marketplace scored with appearances past the cap of the appearance
\* score and a position past the floor of the position score
C19_Witness ==
    /\ response # None
    /\ is_marketplace_domain(request.domain)
    /\ 2 * request.appearances > 50
    /\ request.avg_position > 60
    /\ request.price_competitiveness = 10
    /\ response.score = 800

\* C20: detect_new_competitors reports a candidate as new exactly when its
\* normalized domain is not among the existing competitors of the project,
\* and with auto_create it persists one Competitor per new candidate; a run
\* that follows a run with auto_create on the same project, with the same
\* candidates, reports no new competitor and creates no Competitor.
C20_SecondRunFindsNothing ==
    [][\A s \in Sessions :
        LET p == detection'[s].project_id
            added == VisibleCompetitors(s)' \ VisibleCompetitors(s)
        IN  /\ (detection[s].pc = "idle" /\ detection'[s].pc = "create")
               => /\ detection'[s].new_competitors =
                        {d \in Candidates(s, p) :
                            \A c \in ProjectCompetitors(s, p) :
                                normalize_domain(c.domain) # normalize_domain(d)}
                  /\ \A s1 \in Sessions :
                        (/\ detection[s1].pc = "idle"
                         /\ detection[s1].created
                         /\ detection[s1].project_id = p
                         /\ detection[s1].candidates = Candidates(s, p))
                        => detection'[s].new_competitors = {}
            /\ (detection[s].pc = "create" /\ detection'[s].pc = "associate")
               => /\ Cardinality(added) = Cardinality(detection[s].new_competitors)
                  /\ {c.domain : c \in added} = detection[s].new_competitors
                  /\ \A c \in added : c.project_id = p
      ]_vars

\* a run created the competitors of its candidates, and the run after it on
\* the same project and the same candidates reports nothing and has created
\* nothing
C20_Witness ==
    \E s1, s2 \in Sessions :
        /\ detection[s1].pc = "idle"
        /\ detection[s1].created
        /\ \E c \in competitors :
            /\ c.project_id = detection[s1].project_id
            /\ c.domain = <<"shop.", "leroymerlin.fr">>
            /\ c.domain \in detection[s1].candidates
        /\ detection[s2].pc = "associate"
        /\ detection[s2].created
        /\ detection[s2].project_id = detection[s1].project_id
        /\ detection[s2].candidates = detection[s1].candidates
        /\ detection[s2].new_competitors = {}
        /\ tx[s2].comps = {}

\* the facts of the reference site of the project in the last week that
\* carry a position
OwnDomainFacts(p) ==
    {f \in WithPosition(LastWeek(p)) :
        f.domain = (IF reference_site[p] # None THEN reference_site[p]
                    ELSE DefaultReferenceSite)}

\* C21: the average_position of the dashboard is the average position of
\* the facts of the last 7 days whose domain is the reference site of the
\* project and whose position is not null; facts of other domains do not
\* change it.
C21_AverageOverOwnDomain ==
    (/\ request # None
     /\ request.call = "get_dashboard_metrics"
     /\ response.status_code = 200)
    => response.average_position = Avg(OwnDomainFacts(request.project_id))

\* C22: every item in the output of deduplicate_serp_results carries its
\* UniqueUrl identifier and its canonical URL, an item whose canonical URL
\* was seen earlier in the batch included.
C22_OutputAnnotated ==
    \A k \in Keywords : \A i \in DOMAIN deduplicated[k] :
        /\ deduplicated[k][i].unique_url_id # None
        /\ deduplicated[k][i].normalized_url # None

HasUrl(item) == item.url # <<>>

\* C23: for one batch, deduplicate_serp_results calls
\* get_or_create_unique_url once per distinct canonical URL and never on a
\* canonical URL already in its output, gives a later listing the identifier
\* of the first listing with its canonical URL, and returns the listings that
\* have a URL, in provider order.
C23_OneCallPerCanonicalUrl ==
    [][\A k \in Keywords :
        /\ (calls'[k] = calls[k] + 1)
           => \A i \in DOMAIN deduplicated[k] :
                Canonical[deduplicated[k][i].url] # Canonical[batch[k][idx[k]].url]
        /\ (kpc[k] \in {"dedupe", "insert"} /\ kpc'[k] = "save")
           => /\ calls'[k] = Cardinality({Canonical[it.url] :
                                            it \in {x \in Range(batch[k]) : HasUrl(x)}})
              /\ \A i, j \in DOMAIN deduplicated'[k] :
                    Canonical[deduplicated'[k][i].url] = Canonical[deduplicated'[k][j].url]
                    => deduplicated'[k][i].unique_url_id = deduplicated'[k][j].unique_url_id
              /\ [i \in DOMAIN deduplicated'[k] |-> deduplicated'[k][i].url]
                    = [i \in DOMAIN SelectSeq(batch[k], HasUrl) |->
                            SelectSeq(batch[k], HasUrl)[i].url]
      ]_vars

\* a batch of two listings with one canonical URL around a listing without
\* URL: one call, two items in the output
C23_Witness ==
    /\ kpc[1] = "save"
    /\ batch[1] = <<ItemA, ItemN, ItemB>>
    /\ calls[1] = 1
    /\ Len(deduplicated[1]) = 2
    /\ deduplicated[1][2].unique_url_id = deduplicated[1][1].unique_url_id

\* C24: get_urls_needing_scraping returns no completed row, returns a
\* pending or failed row only if it was never scraped or was last scraped
\* more than max_age_hours ago, and returns at most limit rows; a row that
\* update_scraping_status has marked failed is not returned before
\* max_age_hours have passed since.
C24_RetryEligibility ==
    (request # None /\ request.call = "get_urls_needing_scraping")
    => /\ response.urls \subseteq unique_urls
       /\ Cardinality(response.urls) <= request.limit
       /\ \A r \in response.urls :
            /\ r.scraping_status # "completed"
            /\ r.scraping_status \in {"pending", "failed"}
            /\ r.last_scraped # None => clock - r.last_scraped[1] > request.max_age_hours
            /\ r.scraping_status = "failed" =>
                    (r.last_scraped # None /\ clock - r.last_scraped[1] > request.max_age_hours)

\* a failed row marked two hours ago is returned for max_age_hours = 1,
\* while a row marked failed in this hour and a completed row exist and are
\* not returned
C24_Witness ==
    /\ request # None
    /\ request.call = "get_urls_needing_scraping"
    /\ request.max_age_hours = 1
    /\ \E r \in response.urls : r.scraping_status = "failed" /\ r.last_scraped = <<clock - 2>>
    /\ \E r \in unique_urls \ response.urls :
            r.scraping_status = "failed" /\ r.last_scraped = <<clock>>

\* two rows satisfy the WHERE clause and limit 1 returns one of them
C24_WitnessLimit ==
    /\ request # None
    /\ request.call = "get_urls_needing_scraping"
    /\ request.limit = 1
    /\ Cardinality(response.urls) = 1
    /\ \E r \in unique_urls \ response.urls : r.scraping_status = "pending"

C26_GroupAttributedToCreated ==
    [][\A s \in Sessions :
        (detection[s].pc = "associate" /\ detection'[s].pc = "commit")
        => \A d \in detection[s].new_competitors :
            \A f \in FactsOfDomain(s, detection[s].project_id, d) :
                \E g \in VisibleFacts(s)' :
                    /\ g.id = f.id
                    /\ g.competitor_id = NewCompetitor(detection[s].project_id, d).id
      ]_vars

\* C27: in every state get_or_create_unique_url and update_scraping_status
\* reach, a row whose status is completed is_scraped: it has product data,
\* not empty and without an "error" key.
C27_CompletedHasProductData ==
    \A s \in Sessions : \A r \in Visible(s) :
        r.scraping_status = "completed"
        => /\ is_scraped(r)
           /\ Truthy(r.product_data)
           /\ WithoutError(r.product_data) = r.product_data

\* C28: in the answer of get_keywords_positions, an entry with a current
\* and a previous position has its previous position from a fact of a
\* strictly earlier scrape than the one of the current position; two
\* listings of the reference site recorded in one scrape of the keyword are
\* not reported as current and previous.
C28_PreviousFromEarlierScrape ==
    (/\ request # None
     /\ request.call = "get_keywords_positions"
     /\ response.status_code = 200)
    => \A i \in DOMAIN response.keywords :
        LET e == response.keywords[i]
        IN  (e.current_position # None /\ e.previous_position # None)
            => \E g \in Positioned(e.keyword_id, response.reference_site) :
                    /\ g.position = e.previous_position
                    /\ g.scraped_at < e.last_scraped[1]

\* the keys of the analytics entries of project p
ProjectKeys(p) ==
    {dashboard_key(p)} \cup
    {period_key(prefix, p, period) : prefix \in PeriodPrefixes, period \in Periods}

\* C29: after invalidate_project_cache(p) on a connected cache, every entry
\* stored for p by set_dashboard_metrics, set_share_of_voice,
\* set_position_matrix or set_opportunities is gone (its get returns None),
\* and the entries of the other projects are untouched.
C29_InvalidateRemovesProjectEntries ==
    [][(/\ request' # None
        /\ request'.call = "invalidate_project_cache"
        /\ cache.redis_client)
       => /\ \A key \in ProjectKeys(request'.project_id) : get(key)' = None
          /\ \A q \in Projects \ {request'.project_id} :
                \A key \in ProjectKeys(q) : get(key)' = get(key)
      ]_vars

\* the entries of the result that count as failed
failed_scrapes == Cardinality({k \in Keywords : results[k].done /\ ~results[k].success})

\* C30: if every provider call returns or raises, every keyword task gets a
\* slot of the semaphore and gives it back, on success and on failure, and
\* scrape_project returns a result with one entry per keyword and
\* successful_scrapes + failed_scrapes = keywords_scraped.
C30_PassReturns ==
    /\ \A k \in Keywords : (kpc[k] = "waiting") ~> (kpc[k] = "done")
    /\ (ppc = "gather")
        ~> (/\ ppc = "returned"
            /\ Running = {}
            /\ \A k \in Keywords : results[k].done
            /\ successful_scrapes + failed_scrapes = Cardinality(Keywords))

====
